---- MODULE Spec2Model ----
(***************************************************************************)
(* A model of the Origami bootstrap code generator                         *)
(* (src/bootstrap/codegen.js): the tail-position normalizer fixReturns,    *)
(* the statement/expression lowering compile, the pattern compiler         *)
(* compileMatch, and the function and class lowerings.                     *)
(*                                                                         *)
(* Input AST nodes and Babel output nodes are records carrying the field   *)
(* names of the source; arrays are sequences; null is the record Null.     *)
(* A call that can throw yields [ok |-> FALSE, error |-> message] in place *)
(* of [ok |-> TRUE, v |-> value]; lowering results also carry c, the value *)
(* of fresh.current after the call.                                        *)
(***************************************************************************)
EXTENDS Integers, Sequences, FiniteSets, TLC

VARIABLES
    current,  \* fresh.current, the module-level counter of codegen.js
    before,   \* fresh.current when the last operation began
    op,       \* the last operation applied
    input,    \* the argument the last operation was applied to
    output,   \* what the last operation returned or threw
    first     \* the result of the operation before a repeated application

vars == <<current, before, op, input, output, first>>

Null == [type |-> "null"]

Return(v) == [ok |-> TRUE, v |-> v]
Throw(message) == [ok |-> FALSE, error |-> message]

Last(s) == s[Len(s)]
Front(s) == SubSeq(s, 1, Len(s) - 1)

-----------------------------------------------------------------------------
(* Input AST, as the parser builds it.                                     *)

VariableExpression(name) == [type |-> "VariableExpression", name |-> name]

Integer(sign, digits) == [type |-> "Integer", sign |-> sign, digits |-> digits]

LiteralExpression(literal) == [type |-> "LiteralExpression", literal |-> literal]

CallExpressionNode(callee, params) ==
    [type |-> "CallExpression", callee |-> callee, params |-> params]

BinaryExpression_binary(left, operator, right) ==
    [type |-> "BinaryExpression", left |-> left, operator |-> operator,
     right |-> right]

UnaryExpression_not(operator, argument) ==
    [type |-> "UnaryExpression", prefix |-> TRUE, operator |-> operator,
     argument |-> argument]

Property_at(object, key) ==
    [type |-> "AtExpression", object |-> object, key |-> key]

AssignExpression_assign(object, key, value) ==
    [type |-> "AtPutExpression", object |-> object, key |-> key,
     value |-> value]

ExpressionStatement(expression) ==
    [type |-> "ExpressionStatement", expression |-> expression]

LetStatement(mutable, name, expression) ==
    [type |-> "LetStatement", mutable |-> mutable, name |-> name,
     expression |-> expression]

AssertStatement(expression, code) ==
    [type |-> "AssertStatement", expression |-> expression, code |-> code]

ForeachStatement(name, iterator, block) ==
    [type |-> "ForeachStatement", name |-> name, iterator |-> iterator,
     block |-> block]

WhileStatement(predicate, block) ==
    [type |-> "WhileStatement", predicate |-> predicate, block |-> block]

UntilStatement(predicate, block) ==
    [type |-> "UntilStatement", predicate |-> predicate, block |-> block]

ForStatement(name, start, end, by, block) ==
    [type |-> "ForStatement", name |-> name, start |-> start, end |-> end,
     by |-> by, block |-> block]

RepeatStatement(block) == [type |-> "RepeatStatement", block |-> block]

IfStatement(test, block, alternate) ==
    [type |-> "IfStatement", test |-> test, block |-> block,
     alternate |-> alternate]

ElseIf(stmt) == [type |-> "ElseIf", if |-> stmt]

Else(block) == [type |-> "Else", block |-> block]

Match(value, cases) == [type |-> "Match", value |-> value, cases |-> cases]

MatchStatement(match) == [type |-> "MatchStatement", match |-> match]

MatchCase_case_when(pattern, predicate, block) ==
    [type |-> "MatchCase", tag |-> "When", pattern |-> pattern,
     predicate |-> predicate, block |-> block]

MatchCase_case(pattern, block) ==
    [type |-> "MatchCase", tag |-> "Case", pattern |-> pattern, block |-> block]

MatchCase_default(block) ==
    [type |-> "MatchCase", tag |-> "Default", block |-> block]

Pattern_literal(literal) ==
    [type |-> "Pattern", tag |-> "Literal", literal |-> literal]

Pattern_bind(name) == [type |-> "Pattern", tag |-> "Bind", name |-> name]

Pattern_array(pattern) ==
    [type |-> "Pattern", tag |-> "Array", pattern |-> pattern]

ArrayPattern_regular(items) ==
    [type |-> "ArrayPattern", tag |-> "Regular", items |-> items]

ArrayPattern_spread(items, spread) ==
    [type |-> "ArrayPattern", tag |-> "Spread", items |-> items,
     spread |-> spread]

PairPattern(name, pattern) == [name |-> name, pattern |-> pattern]

Pattern_object(pairs) == [type |-> "Pattern", tag |-> "Object", pairs |-> pairs]

Pattern_extractor(object, patterns) ==
    [type |-> "Pattern", tag |-> "Extractor", object |-> object,
     patterns |-> patterns]

\* kind is "generator", "async", or "plain" where the source has no kind.
FunctionSignature(kind, name, params) ==
    [type |-> "FunctionSignature", kind |-> kind, name |-> name,
     params |-> params]

Function(signature, block) ==
    [type |-> "Function", signature |-> signature, block |-> block]

FunctionExpression(kind, params, block) ==
    [type |-> "FunctionExpression", kind |-> kind, params |-> params,
     block |-> block]

MemberDeclaration_method(kind, self, name, params, block) ==
    [type |-> "MemberMethod", kind |-> kind, self |-> self, name |-> name,
     params |-> params, block |-> block]

MemberDeclaration_setter(self, name, param, block) ==
    [type |-> "MemberSetter", kind |-> "plain", self |-> self, name |-> name,
     params |-> <<param>>, block |-> block]

MemberDeclaration_getter(self, name, block) ==
    [type |-> "MemberGetter", kind |-> "plain", self |-> self, name |-> name,
     params |-> <<>>, block |-> block]

ClassMember(tag, definition) ==
    [type |-> "ClassMember", tag |-> tag, definition |-> definition]

ClassField(name, value) ==
    [type |-> "ClassField", name |-> name, value |-> value]

SuperClass(constructor, params) ==
    [type |-> "SuperClass", constructor |-> constructor, params |-> params]

ClassDeclaration(name, params, superclass, fields, constructor, members) ==
    [name |-> name, params |-> params, superclass |-> superclass,
     fields |-> fields, constructor |-> constructor, members |-> members]

Class(tag, declaration) ==
    [type |-> "Class", tag |-> tag, declaration |-> declaration]

Program(definitions) == [type |-> "Program", definitions |-> definitions]

\* The node the normalizer adds; it is no node of the grammar.
ReturnStatementNode(expression) ==
    [type |-> "ReturnStatement", expression |-> expression]

-----------------------------------------------------------------------------
(* The tail-position normalizer.                                           *)

RECURSIVE fixReturns(_)
RECURSIVE fixAlternate(_)
RECURSIVE fixCases(_)

LoopTypes ==
    {"ForeachStatement", "WhileStatement", "UntilStatement", "ForStatement",
     "RepeatStatement"}

\* fixReturns entered with a node object in place of an array: block.length
\* is undefined, so the test of the empty block is false, and block.slice is
\* no function.
fixReturnsOfObject(node) == Throw(<<"TypeError: block.slice is not a function">>)

fixExpressionStatement_kept(last) == last

\* case "ExpressionStatement"
fixExpressionStatement(last) ==
    [type |-> "ReturnStatement", expression |-> last.expression]

fixValueless_recursing(last) ==
    IF last.type \in LoopTypes /\ fixReturns(last.block).ok
    THEN [last EXCEPT !.block = fixReturns(last.block).v]
    ELSE last

\* case "LetStatement" ... "RepeatStatement"
fixValueless(last) == last

fixCase_bare(matchCase) ==
    LET b == fixReturns(matchCase.block)
    IN  IF b.ok
        THEN Return([type |-> "MatchCase", tag |-> matchCase.tag, block |-> b.v])
        ELSE b

\* fixCase: Object.assign({}, matchCase, {block: fixReturns(matchCase.block)})
fixCase(matchCase) ==
    LET b == fixReturns(matchCase.block)
    IN  IF b.ok THEN Return([matchCase EXCEPT !.block = b.v]) ELSE b

\* last.match.cases.map(fixCase)
fixCases(cases) ==
    IF cases = <<>> THEN Return(<<>>)
    ELSE LET h == fixCase(Head(cases))
         IN  IF ~h.ok THEN h
             ELSE LET t == fixCases(Tail(cases))
                  IN  IF ~t.ok THEN t ELSE Return(<<h.v>> \o t.v)

fixAlternate(node) ==
    CASE node.type = "ElseIf" ->
           LET r == fixReturnsOfObject(<<node.if>>[1])
           IN  IF r.ok THEN Return([type |-> "ElseIf", if |-> r.v]) ELSE r
      [] node.type = "Else" ->
           LET r == fixReturns(node.block)
           IN  IF r.ok THEN Return([type |-> "Else", block |-> r.v]) ELSE r
      [] OTHER -> Throw(<<"Unknown node ", node.type>>)

fixReturns(block) ==
    IF Len(block) = 0 THEN Return(<<>>)
    ELSE
      LET initial == Front(block)
          last == Last(block)
      IN  CASE last.type = "ExpressionStatement" ->
                 Return(Append(initial, fixExpressionStatement(last)))
            [] last.type = "IfStatement" ->
                 LET b == fixReturns(last.block)
                     a == IF last.alternate # Null
                          THEN fixAlternate(last.alternate)
                          ELSE Return(Null)
                 IN  IF ~b.ok THEN b
                     ELSE IF ~a.ok THEN a
                     ELSE Return(Append(initial,
                            [type |-> "IfStatement", test |-> last.test,
                             block |-> b.v, alternate |-> a.v]))
            [] last.type = "MatchStatement" ->
                 LET cs == fixCases(last.match.cases)
                 IN  IF ~cs.ok THEN cs
                     ELSE Return(Append(initial,
                            [type |-> "MatchStatement",
                             match |-> [type |-> "Match",
                                        value |-> last.match.value,
                                        cases |-> cs.v]]))
            [] last.type \in {"LetStatement", "AssertStatement"} \cup LoopTypes ->
                 Return(Append(initial, fixValueless(last)))
            [] OTHER -> Throw(<<"Unknown node type ", last.type>>)

\* The normalizer of the earlier code generator.
fixReturns0(block) ==
    IF Len(block) = 0 THEN Return(<<>>)
    ELSE
      LET initial == Front(block)
          last == Last(block)
      IN  CASE last.type = "ExpressionStatement" ->
                 Return(Append(initial,
                   [type |-> "ReturnStatement", expression |-> last.expression]))
            [] last.type \in {"LetStatement", "AssertStatement"} ->
                 Return(Append(initial, last))
            [] OTHER -> Throw(<<"Unknown node type ", last.type>>)

-----------------------------------------------------------------------------
(* Babel node builders, as codegen.js calls them.                          *)

Completed(v, c) == [ok |-> TRUE, v |-> v, c |-> c]
Raised(message, c) == [ok |-> FALSE, error |-> message, c |-> c]

id(x) == [type |-> "Identifier", name |-> x]

t_variableDeclaration(kind, declarations) ==
    [type |-> "VariableDeclaration", kind |-> kind,
     declarations |-> declarations]

t_variableDeclarator(name, init) ==
    [type |-> "VariableDeclarator", id |-> name, init |-> init]

t_expressionStatement(expression) ==
    [type |-> "ExpressionStatement", expression |-> expression]

t_ifStatement(test, consequent, alternate) ==
    [type |-> "IfStatement", test |-> test, consequent |-> consequent,
     alternate |-> alternate]

t_blockStatement(body) == [type |-> "BlockStatement", body |-> body]

t_throwStatement(argument) == [type |-> "ThrowStatement", argument |-> argument]

t_returnStatement(argument) ==
    [type |-> "ReturnStatement", argument |-> argument]

t_callExpression(callee, arguments) ==
    [type |-> "CallExpression", callee |-> callee, arguments |-> arguments]

t_newExpression(callee, arguments) ==
    [type |-> "NewExpression", callee |-> callee, arguments |-> arguments]

t_memberExpression(object, property, computed) ==
    [type |-> "MemberExpression", object |-> object, property |-> property,
     computed |-> computed]

t_binaryExpression(operator, left, right) ==
    [type |-> "BinaryExpression", operator |-> operator, left |-> left,
     right |-> right]

t_logicalExpression(operator, left, right) ==
    [type |-> "LogicalExpression", operator |-> operator, left |-> left,
     right |-> right]

t_unaryExpression(operator, argument, prefix) ==
    [type |-> "UnaryExpression", operator |-> operator, argument |-> argument,
     prefix |-> prefix]

t_assignmentExpression(operator, left, right) ==
    [type |-> "AssignmentExpression", operator |-> operator, left |-> left,
     right |-> right]

t_conditionalExpression(test, consequent, alternate) ==
    [type |-> "ConditionalExpression", test |-> test,
     consequent |-> consequent, alternate |-> alternate]

t_awaitExpression(argument) ==
    [type |-> "AwaitExpression", argument |-> argument]

t_yieldExpression(argument, delegate) ==
    [type |-> "YieldExpression", argument |-> argument, delegate |-> delegate]

t_forOfStatement(left, right, body) ==
    [type |-> "ForOfStatement", left |-> left, right |-> right, body |-> body]

t_whileStatement(test, body) ==
    [type |-> "WhileStatement", test |-> test, body |-> body]

t_doWhileStatement(test, body) ==
    [type |-> "DoWhileStatement", test |-> test, body |-> body]

\* A string value is the sequence of the pieces it is concatenated from.
t_stringLiteral(value) == [type |-> "StringLiteral", value |-> value]

t_numericLiteral(value) == [type |-> "NumericLiteral", value |-> value]

t_booleanLiteral(value) == [type |-> "BooleanLiteral", value |-> value]

t_nullLiteral == [type |-> "NullLiteral"]

t_thisExpression == [type |-> "ThisExpression"]

t_arrayExpression(elements) ==
    [type |-> "ArrayExpression", elements |-> elements]

t_objectProperty(key, value) ==
    [type |-> "ObjectProperty", key |-> key, value |-> value]

t_objectExpression(properties) ==
    [type |-> "ObjectExpression", properties |-> properties]

t_functionExpression(name, params, body, generator) ==
    [type |-> "FunctionExpression", id |-> name, params |-> params,
     body |-> body, generator |-> generator]

t_arrowFunctionExpression(params, body, async) ==
    [type |-> "ArrowFunctionExpression", params |-> params, body |-> body,
     async |-> async]

t_functionDeclaration(name, params, body, generator, async) ==
    [type |-> "FunctionDeclaration", id |-> name, params |-> params,
     body |-> body, generator |-> generator, async |-> async]

\* t.classMethod called with four arguments: computed, static, generator
\* and async are left to the builder, which sets them to false.
t_classMethod(kind, key, params, body) ==
    [type |-> "ClassMethod", kind |-> kind, key |-> key, params |-> params,
     body |-> body, computed |-> FALSE, static |-> FALSE,
     generator |-> FALSE, async |-> FALSE]

t_classBody(body) == [type |-> "ClassBody", body |-> body]

t_classDeclaration(name, superClass, body) ==
    [type |-> "ClassDeclaration", id |-> name, superClass |-> superClass,
     body |-> body]

t_exportNamedDeclaration(declaration, specifiers) ==
    [type |-> "ExportNamedDeclaration", declaration |-> declaration,
     specifiers |-> specifiers]

t_importDeclaration(specifiers, source) ==
    [type |-> "ImportDeclaration", specifiers |-> specifiers, source |-> source]

t_importSpecifier(local, imported) ==
    [type |-> "ImportSpecifier", local |-> local, imported |-> imported]

t_importDefaultSpecifier(local) ==
    [type |-> "ImportDefaultSpecifier", local |-> local]

t_importNamespaceSpecifier(local) ==
    [type |-> "ImportNamespaceSpecifier", local |-> local]

t_program(body, directives, sourceType) ==
    [type |-> "Program", body |-> body, directives |-> directives,
     sourceType |-> sourceType]

isArray(a) ==
    t_callExpression(t_memberExpression(id("Array"), id("isArray"), FALSE),
                     <<a>>)

isntNone_inverted(a) == t_binaryExpression("==", a, t_nullLiteral)

isntNone(a) == t_binaryExpression("!=", a, t_nullLiteral)

isntNull(a) == t_binaryExpression("!==", a, t_nullLiteral)

typeOf(a) == t_unaryExpression("typeof", a, TRUE)

isObject_unchecked(a) ==
    t_binaryExpression("===", typeOf(a), t_stringLiteral(<<"object">>))

isObject(a) ==
    t_logicalExpression("&&", isntNull(a),
      t_binaryExpression("===", typeOf(a), t_stringLiteral(<<"object">>)))

hasLength(a, operator, i) ==
    t_binaryExpression(operator, t_memberExpression(a, id("length"), FALSE), i)

defConst(name, value) ==
    t_variableDeclaration("const", <<t_variableDeclarator(name, value)>>)

at(obj, i) == t_memberExpression(obj, i, TRUE)

send(obj, message, args) ==
    t_callExpression(t_memberExpression(obj, id(message), FALSE), args)

assert_silent(expr, message) ==
    t_ifStatement(t_unaryExpression("!", expr, TRUE), t_blockStatement(<<>>), Null)

\* $assert
assert(expr, message) ==
    t_ifStatement(t_unaryExpression("!", expr, TRUE),
      t_throwStatement(t_callExpression(id("Error"), <<t_stringLiteral(<<message>>)>>)),
      Null)

\* The text of n in `$$${name}_${this.current++}` with name = "ref".
RefNames ==
    <<"$$ref_1", "$$ref_2", "$$ref_3", "$$ref_4", "$$ref_5", "$$ref_6",
      "$$ref_7", "$$ref_8", "$$ref_9", "$$ref_10", "$$ref_11", "$$ref_12",
      "$$ref_13", "$$ref_14", "$$ref_15", "$$ref_16", "$$ref_17", "$$ref_18",
      "$$ref_19", "$$ref_20", "$$ref_21", "$$ref_22", "$$ref_23", "$$ref_24",
      "$$ref_25", "$$ref_26", "$$ref_27", "$$ref_28", "$$ref_29", "$$ref_30",
      "$$ref_31", "$$ref_32">>

freshNext_stuck(c) == [name |-> RefNames[c], c |-> c]

freshNext_paired(c) == [name |-> RefNames[2 * ((c + 1) \div 2)], c |-> c + 1]

\* fresh.next(): the name made of the counter, and the counter advanced.
freshNext(c) == [name |-> RefNames[c], c |-> c + 1]

\* mangle of utils.js
MangleTable ==
    [operator \in {"===", "=/=", "==>", ">=", ">>", ">", "<=", "<<", "<", "++",
                   "+", "-", "**", "*", "/", "and", "or", "not", "[]", "[]<-"} |->
       CASE operator = "===" -> "$equals"
         [] operator = "=/=" -> "$notEquals"
         [] operator = "==>" -> "$imply"
         [] operator = ">=" -> "$gte"
         [] operator = ">>" -> "$composeRight"
         [] operator = ">" -> "$gt"
         [] operator = "<=" -> "$lte"
         [] operator = "<<" -> "$composeLeft"
         [] operator = "<" -> "$lt"
         [] operator = "++" -> "$concat"
         [] operator = "+" -> "$plus"
         [] operator = "-" -> "$minus"
         [] operator = "**" -> "$power"
         [] operator = "*" -> "$multiply"
         [] operator = "/" -> "$divide"
         [] operator = "and" -> "$and"
         [] operator = "or" -> "$or"
         [] operator = "not" -> "$not"
         [] operator = "[]" -> "$at"
         [] operator = "[]<-" -> "$atPut"]

mangle_unchanged(name) == Return(name)

mangle(name) ==
    IF name \in DOMAIN MangleTable
    THEN Return(MangleTable[name])
    ELSE Throw(<<"Unknown operator ", name>>)

RECURSIVE DigitsValue(_)
DigitsValue(digits) ==
    IF digits = <<>> THEN 0
    ELSE 10 * DigitsValue(Front(digits)) + Last(digits)

\* Number(`${node.sign || ""}${node.digits}`)
Number(sign, digits) ==
    IF sign = "-" THEN 0 - DigitsValue(digits) ELSE DigitsValue(digits)

\* Decimal literals are not among the literals of this model.
compileLiteral(node) ==
    CASE node.type = "String" -> Return(t_stringLiteral(<<node.value>>))
      [] node.type = "Integer" ->
           Return(t_numericLiteral(Number(node.sign, node.digits)))
      [] node.type = "Boolean" -> Return(t_booleanLiteral(node.value))
      [] OTHER -> Throw(<<"Unknown node type ", node.type>>)

-----------------------------------------------------------------------------
(* Statement and expression lowering, and the pattern compiler.            *)

RECURSIVE compile(_, _)
RECURSIVE mapCompile(_, _)
RECURSIVE compileMatch(_, _)
RECURSIVE compileCase(_, _, _)
RECURSIVE mapCompileCase(_, _, _)
RECURSIVE applyPattern(_, _, _)
RECURSIVE reduceRightPatterns(_, _, _, _, _)

\* F of the value of x, with x evaluated once.
Bind(x, F(_)) == CHOOSE y \in {F(w) : w \in {x}} : TRUE

\* The call r, and then the call F of its result when it completed; when it
\* raised, what it raised.
AndThen(r, F(_)) == Bind(r, LAMBDA w : IF w.ok THEN F(w) ELSE w)

\* The call r, with its value rebuilt by F when it completed.
Then(r, F(_)) ==
    Bind(r, LAMBDA w : IF w.ok THEN Completed(F(w.v), w.c) ELSE w)

\* nodes.map(compile)
mapCompile(nodes, c) ==
    IF nodes = <<>> THEN Completed(<<>>, c)
    ELSE AndThen(compile(Head(nodes), c), LAMBDA h :
           Then(mapCompile(Tail(nodes), h.c), LAMBDA t : <<h.v>> \o t))

\* compile(predicate), t.blockStatement(block.map(compile)): the two
\* arguments of a loop or conditional builder, in that order.
compileHeadAndBlock(head, block, c) ==
    AndThen(compile(head, c), LAMBDA h :
      Then(mapCompile(block, h.c), LAMBDA b :
        [head |-> h.v, block |-> t_blockStatement(b)]))

\* compileIf: the reference to alternate, which no scope declares, raises
\* once the test and the block have been lowered.
compileIf(node, c) ==
    AndThen(compileHeadAndBlock(node.test, node.block, c), LAMBDA hb :
      Raised(<<"ReferenceError: alternate is not defined">>, hb.c))

\* case "ForStatement": the reference to name, which no scope declares,
\* raises once start and end have been lowered.
compileFor(node, c) ==
    AndThen(mapCompile(<<node.start, node.end>>, c), LAMBDA se :
      Raised(<<"ReferenceError: name is not defined">>, se.c))

\* t.blockStatement(fixReturns(node.block).map(compile))
compileBody(block, c) ==
    Bind(fixReturns(block), LAMBDA fixed :
      IF ~fixed.ok THEN Raised(fixed.error, c)
      ELSE Then(mapCompile(fixed.v, c), LAMBDA body : t_blockStatement(body)))

\* t.callExpression(id(mangle(operator)), args.map(compile))
compileOperator(operator, args, c) ==
    LET name == mangle(operator)
    IN  IF ~name.ok THEN Raised(name.error, c)
        ELSE Then(mapCompile(args, c),
                  LAMBDA vs : t_callExpression(id(name.v), vs))

\* case "FunctionExpression"
compileFunctionExpression(node, c) ==
    IF node.kind = "generator"
    THEN Then(compileBody(node.block, c),
              LAMBDA body : t_functionExpression(Null,
                              [i \in 1..Len(node.params) |-> id(node.params[i])],
                              body, TRUE))
    ELSE Then(compileBody(node.block, c),
              LAMBDA body : t_arrowFunctionExpression(
                              [i \in 1..Len(node.params) |-> id(node.params[i])],
                              body, node.kind = "async"))

compile(node, c) ==
    CASE node.type = "Binding" ->
           Completed(t_importSpecifier(id(node.alias), id(node.name)), c)
      [] node.type = "DefaultBinding" ->
           Completed(t_importDefaultSpecifier(id(node.name)), c)
      [] node.type = "ExpressionStatement" ->
           Then(compile(node.expression, c),
                LAMBDA e : t_expressionStatement(e))
      [] node.type = "LetStatement" ->
           Then(compile(node.expression, c),
                LAMBDA e : t_variableDeclaration(
                             IF node.mutable THEN "let" ELSE "const",
                             <<t_variableDeclarator(id(node.name), e)>>))
      [] node.type = "AssertStatement" ->
           Then(compile(node.expression, c),
                LAMBDA e : t_ifStatement(
                             t_unaryExpression("!", e, TRUE),
                             t_blockStatement(<<t_throwStatement(
                               t_newExpression(id("Error"),
                                 <<t_stringLiteral(
                                     <<"Assertion failed: ", node.code>>)>>))>>),
                             Null))
      [] node.type = "ForeachStatement" ->
           Then(compileHeadAndBlock(node.iterator, node.block, c),
                LAMBDA hb : t_forOfStatement(id(node.name), hb.head, hb.block))
      [] node.type = "WhileStatement" ->
           Then(compileHeadAndBlock(node.predicate, node.block, c),
                LAMBDA hb : t_whileStatement(hb.head, hb.block))
      [] node.type = "UntilStatement" ->
           Then(compileHeadAndBlock(node.predicate, node.block, c),
                LAMBDA hb : t_doWhileStatement(hb.head, hb.block))
      [] node.type = "ForStatement" -> compileFor(node, c)
      [] node.type = "RepeatStatement" ->
           Then(mapCompile(node.block, c),
                LAMBDA b : t_whileStatement(t_booleanLiteral(TRUE),
                                            t_blockStatement(b)))
      [] node.type = "IfStatement" -> compileIf(node, c)
      [] node.type = "MatchStatement" ->
           Then(compileMatch(node.match, c), LAMBDA b : t_blockStatement(b))
      [] node.type = "ReturnStatement" ->
           Then(compile(node.expression, c), LAMBDA e : t_returnStatement(e))
      [] node.type = "IfExpression" ->
           Then(mapCompile(<<node.test, node.consequent, node.alternate>>, c),
                LAMBDA vs : t_conditionalExpression(vs[1], vs[2], vs[3]))
      [] node.type = "PipeExpression" ->
           Then(mapCompile(<<node.right, node.left>>, c),
                LAMBDA vs : t_callExpression(vs[1], <<vs[2]>>))
      [] node.type = "AwaitExpression" ->
           Then(compile(node.expression, c), LAMBDA e : t_awaitExpression(e))
      [] node.type = "YieldExpression" ->
           Then(compile(node.expression, c),
                LAMBDA e : t_yieldExpression(e, node.generator))
      [] node.type = "BinaryExpression" ->
           compileOperator(node.operator, <<node.left, node.right>>, c)
      [] node.type = "UnaryExpression" ->
           compileOperator(node.operator, <<node.argument>>, c)
      [] node.type = "CallExpression" ->
           Then(mapCompile(<<node.callee>> \o node.params, c),
                LAMBDA vs : t_callExpression(Head(vs), Tail(vs)))
      [] node.type = "MethodCallExpression" ->
           Then(mapCompile(<<node.object>> \o node.params, c),
                LAMBDA vs : t_callExpression(
                              t_memberExpression(Head(vs), id(node.method), FALSE),
                              Tail(vs)))
      [] node.type = "AtPutExpression" ->
           compileOperator("[]<-", <<node.object, node.key, node.value>>, c)
      [] node.type = "UpdateExpression" ->
           Then(mapCompile(<<node.location, node.value>>, c),
                LAMBDA vs : t_assignmentExpression("=", vs[1], vs[2]))
      [] node.type = "AtExpression" ->
           compileOperator("[]", <<node.object, node.key>>, c)
      [] node.type = "GetExpression" ->
           Then(compile(node.object, c),
                LAMBDA o : t_memberExpression(o, id(node.name), FALSE))
      [] node.type = "NewExpression" ->
           Then(mapCompile(<<node.constructor>> \o node.params, c),
                LAMBDA vs : t_newExpression(Head(vs), Tail(vs)))
      [] node.type = "SuperExpression" -> Completed(id("super"), c)
      [] node.type = "VariableExpression" -> Completed(id(node.name), c)
      [] node.type = "LiteralExpression" ->
           LET l == compileLiteral(node.literal)
           IN  IF l.ok THEN Completed(l.v, c) ELSE Raised(l.error, c)
      [] node.type = "ArrayExpression" ->
           Then(mapCompile(node.items, c), LAMBDA vs : t_arrayExpression(vs))
      [] node.type = "ObjectExpression" ->
           Then(mapCompile([i \in 1..Len(node.pairs) |-> node.pairs[i].expression],
                           c),
                LAMBDA vs : t_objectExpression(
                              [i \in 1..Len(vs) |->
                                 t_objectProperty(id(node.pairs[i].key), vs[i])]))
      [] node.type = "FunctionExpression" -> compileFunctionExpression(node, c)
      [] OTHER -> Raised(<<"Unknown node ", node.type>>, c)

isValidArray_atLeast(a, operator, i) ==
    t_logicalExpression("&&", isArray(a), hasLength(a, ">=", t_numericLiteral(i)))

\* isValidArray of compilePattern
isValidArray(a, operator, i) ==
    t_logicalExpression("&&", isArray(a), hasLength(a, operator, t_numericLiteral(i)))

\* compilePattern(bind, pattern): the closure e => [...] it returns. A spread
\* pattern draws the name of its remainder when the closure is made; every
\* other name is drawn when the closure is applied.
compilePattern(bind, pattern, c) ==
    CASE pattern.tag \in {"Literal", "Object", "Extractor", "Bind"} ->
           Completed([bind |-> bind, pattern |-> pattern, spreadBind |-> Null], c)
      [] pattern.tag = "Array" ->
           CASE pattern.pattern.tag = "Spread" ->
                  LET f == freshNext(c)
                  IN  Completed([bind |-> bind, pattern |-> pattern,
                                 spreadBind |-> id(f.name)], f.c)
             [] pattern.pattern.tag = "Regular" ->
                  Completed([bind |-> bind, pattern |-> pattern,
                             spreadBind |-> Null], c)
             [] OTHER ->
                  Raised(<<"Unknown array pattern ", pattern.pattern.tag>>, c)
      [] OTHER -> Raised(<<"Unknown pattern tag ", pattern.tag>>, c)

reduceStep_unnested(source, key, newPattern, e, c) ==
    LET f == freshNext(c)
        newBind == id(f.name)
    IN  AndThen(compilePattern(newBind, newPattern, f.c), LAMBDA closure :
          Then(applyPattern(closure.v, t_blockStatement(<<>>), closure.c),
               LAMBDA inner :
                 t_blockStatement(<<defConst(newBind, at(source, key))>>
                                    \o inner \o <<e>>)))

\* One step of items.reduceRight((e, newPattern, i) => ...): a new name, the
\* projection by key of source bound to it, and the item's pattern around e.
reduceStep(source, key, newPattern, e, c) ==
    LET f == freshNext(c)
        newBind == id(f.name)
    IN  AndThen(compilePattern(newBind, newPattern, f.c), LAMBDA closure :
          Then(applyPattern(closure.v, e, closure.c), LAMBDA inner :
            t_blockStatement(<<defConst(newBind, at(source, key))>> \o inner)))

\* items.reduceRight(step, e) over the first n items, from item n down; ec
\* is e with the counter.
reduceRightPatterns(source, keys, patterns, n, ec) ==
    IF n = 0 THEN ec
    ELSE AndThen(reduceStep(source, keys[n], patterns[n], ec.v, ec.c),
                 LAMBDA step :
                   reduceRightPatterns(source, keys, patterns, n - 1, step))

indexKeys_fromOne(n) == [i \in 1..n |-> t_numericLiteral(i)]

\* The numeric keys 0 .. n-1 of array items.
indexKeys(n) == [i \in 1..n |-> t_numericLiteral(i - 1)]

\* The closure of compilePattern applied to the statement e.
applyPattern(closure, e, c) ==
    LET bind == closure.bind
        pattern == closure.pattern
    IN  CASE pattern.tag = "Literal" ->
               LET l == compileLiteral(pattern.literal)
               IN  IF ~l.ok THEN Raised(l.error, c)
                   ELSE Completed(
                          <<t_ifStatement(t_binaryExpression("===", bind, l.v),
                                          e, Null)>>, c)
          [] pattern.tag = "Array" /\ pattern.pattern.tag = "Spread" ->
               LET pat == pattern.pattern
                   n == Len(pat.items)
                   spreadBind == closure.spreadBind
               IN  AndThen(compilePattern(spreadBind, pat.spread, c), LAMBDA sp :
                     AndThen(
                       Then(applyPattern(sp.v, e, sp.c), LAMBDA inner :
                         t_blockStatement(
                           <<defConst(spreadBind,
                               send(bind, "slice", <<t_numericLiteral(n)>>))>>
                             \o inner)),
                       LAMBDA rest :
                         Then(reduceRightPatterns(bind, indexKeys(n), pat.items,
                                                  n, rest),
                              LAMBDA body :
                                <<t_ifStatement(isValidArray(bind, ">=", n),
                                                body, Null)>>)))
          [] pattern.tag = "Array" /\ pattern.pattern.tag = "Regular" ->
               LET pat == pattern.pattern
                   n == Len(pat.items)
               IN  Then(reduceRightPatterns(bind, indexKeys(n), pat.items, n,
                                            Completed(e, c)),
                        LAMBDA body : <<t_ifStatement(
                                          isValidArray(bind, "===", n),
                                          body, Null)>>)
          [] pattern.tag = "Object" ->
               LET n == Len(pattern.pairs)
                   keys == [i \in 1..n |->
                              t_stringLiteral(<<pattern.pairs[i].name>>)]
                   pats == [i \in 1..n |-> pattern.pairs[i].pattern]
               IN  Then(reduceRightPatterns(bind, keys, pats, n, Completed(e, c)),
                        LAMBDA body : <<t_ifStatement(isObject(bind), body, Null)>>)
          [] pattern.tag = "Extractor" ->
               LET f == freshNext(c)
                   unapplied == id(f.name)
                   n == Len(pattern.patterns)
               IN  AndThen(compile(pattern.object, f.c), LAMBDA object :
                     Then(reduceRightPatterns(unapplied, indexKeys(n),
                                              pattern.patterns, n,
                                              Completed(e, object.c)),
                          LAMBDA body :
                            <<defConst(unapplied,
                                       send(object.v, "unapply", <<bind>>)),
                              t_ifStatement(isntNone(unapplied),
                                t_blockStatement(
                                  <<assert(isArray(unapplied),
                                      "unapply() must return null or an array"),
                                    body>>),
                                Null)>>))
          [] pattern.tag = "Bind" ->
               Completed(<<t_variableDeclaration("const",
                             <<t_variableDeclarator(id(pattern.name), bind)>>),
                           e>>, c)

compileCase_unconditional(bind, matchCase, c) ==
    IF matchCase.tag = "Default"
    THEN Then(mapCompile(matchCase.block, c), LAMBDA b : t_blockStatement(b))
    ELSE AndThen(compilePattern(bind, matchCase.pattern, c), LAMBDA closure :
           AndThen(mapCompile(matchCase.block, closure.c), LAMBDA body :
             Then(applyPattern(closure.v, t_blockStatement(body.v), body.c),
                  LAMBDA b : t_blockStatement(b))))

compileCase_unguarded(bind, matchCase, c) ==
    Then(mapCompile(matchCase.block, c), LAMBDA b : t_blockStatement(b))

\* compileCase(bind)(matchCase)
compileCase(bind, matchCase, c) ==
    CASE matchCase.tag = "When" ->
           AndThen(compilePattern(bind, matchCase.pattern, c), LAMBDA closure :
             AndThen(compileHeadAndBlock(matchCase.predicate, matchCase.block,
                                         closure.c),
                     LAMBDA hb :
                       Then(applyPattern(closure.v,
                              t_ifStatement(hb.v.head, hb.v.block, Null), hb.c),
                            LAMBDA b : t_blockStatement(b))))
      [] matchCase.tag = "Case" ->
           AndThen(compilePattern(bind, matchCase.pattern, c), LAMBDA closure :
             AndThen(mapCompile(matchCase.block, closure.c), LAMBDA body :
               Then(applyPattern(closure.v, t_blockStatement(body.v), body.c),
                    LAMBDA b : t_blockStatement(b))))
      [] matchCase.tag = "Default" ->
           Then(mapCompile(matchCase.block, c), LAMBDA b : t_blockStatement(b))
      [] OTHER -> Raised(<<"Unknown match case tag ", matchCase.tag>>, c)

mapCompileCase_nested(bind, cases, c) ==
    IF cases = <<>> THEN Completed(<<>>, c)
    ELSE AndThen(compileCase(bind, Head(cases), c), LAMBDA h :
           Then(mapCompileCase(bind, Tail(cases), h.c), LAMBDA t :
             <<t_blockStatement(h.v.body \o t)>>))

\* match.cases.map(compileCase(bind))
mapCompileCase(bind, cases, c) ==
    IF cases = <<>> THEN Completed(<<>>, c)
    ELSE AndThen(compileCase(bind, Head(cases), c), LAMBDA h :
           Then(mapCompileCase(bind, Tail(cases), h.c), LAMBDA t : <<h.v>> \o t))

compileMatch_unbound(match, c) ==
    LET f == freshNext(c)
        bind == id(f.name)
    IN  AndThen(compile(match.value, f.c), LAMBDA value :
          Then(mapCompileCase(value.v, match.cases, value.c), LAMBDA cases :
            <<t_variableDeclaration("const",
                <<t_variableDeclarator(bind, value.v)>>)>> \o cases))

compileMatch(match, c) ==
    LET f == freshNext(c)
        bind == id(f.name)
    IN  AndThen(compile(match.value, f.c), LAMBDA value :
          Then(mapCompileCase(bind, match.cases, value.c), LAMBDA cases :
            <<t_variableDeclaration("const",
                <<t_variableDeclarator(bind, value.v)>>)>> \o cases))

-----------------------------------------------------------------------------
(* Definitions: imports, functions, classes, modules.                      *)

ids(names) == [i \in 1..Len(names) |-> id(names[i])]

compileImport(node, c) ==
    CASE node.tag = "As" ->
           LET source == compileLiteral(node.id)
           IN  IF ~source.ok THEN Raised(source.error, c)
               ELSE Completed(
                      <<t_importDeclaration(
                          <<t_importNamespaceSpecifier(id(node.alias))>>,
                          source.v)>>, c)
      [] node.tag = "Exposing" ->
           AndThen(mapCompile(node.bindings, c), LAMBDA bindings :
             LET source == compileLiteral(node.id)
             IN  IF ~source.ok THEN Raised(source.error, bindings.c)
                 ELSE Completed(<<t_importDeclaration(bindings.v, source.v)>>,
                                bindings.c))
      [] OTHER -> Raised(<<"Unknown import type ", node.tag>>, c)

compileFunction(node, c) ==
    Then(compileBody(node.block, c),
         LAMBDA body :
           <<t_exportNamedDeclaration(
               t_functionDeclaration(id(node.signature.name),
                                     ids(node.signature.params), body,
                                     node.signature.kind = "generator",
                                     node.signature.kind = "async"),
               <<>>)>>)

\* The text `__${x}` for the parameter and field names of the model.
SlotNames ==
    [x \in {"x", "y", "z", "w"} |->
       CASE x = "x" -> "__x" [] x = "y" -> "__y" [] x = "z" -> "__z"
         [] x = "w" -> "__w"]

\* field of compileClass
field(x) == t_memberExpression(t_thisExpression, id(SlotNames[x]), FALSE)

\* methodKind of compileMember; "null" is null
methodKind(type) ==
    CASE type = "MemberMethod" -> "method"
      [] type = "MemberSetter" -> "set"
      [] type = "MemberGetter" -> "get"
      [] OTHER -> "null"

realBlock_normalizing(type, block) == fixReturns(block)

\* realBlock of compileMember
realBlock(type, block) ==
    IF type = "MemberSetter" THEN Return(block) ELSE fixReturns(block)

compileMember(member, unpackPrelude, c) ==
    LET definition == member.definition
    IN  Bind(realBlock(definition.type, definition.block), LAMBDA real :
          IF ~real.ok THEN Raised(real.error, c)
          ELSE Then(mapCompile(real.v, c),
                 LAMBDA body :
                   [type |-> "ClassMethod",
                    static |-> member.tag = "Static",
                    key |-> id(definition.name),
                    computed |-> FALSE,
                    kind |-> methodKind(definition.type),
                    generator |-> definition.kind = "generator",
                    async |-> definition.kind = "async",
                    params |-> ids(definition.params),
                    body |-> t_blockStatement(
                               unpackPrelude
                                 \o <<t_variableDeclaration("const",
                                        <<t_variableDeclarator(
                                            id(definition.self),
                                            t_thisExpression)>>)>>
                                 \o body)]))

RECURSIVE mapCompileMember(_, _, _)
\* members.map(compileMember)
mapCompileMember(members, unpackPrelude, c) ==
    IF members = <<>> THEN Completed(<<>>, c)
    ELSE AndThen(compileMember(Head(members), unpackPrelude, c), LAMBDA h :
           Then(mapCompileMember(Tail(members), unpackPrelude, h.c),
                LAMBDA t : <<h.v>> \o t))

constructorPrelude_fieldsFirst(params, fields, values) ==
    [i \in 1..Len(fields) |->
       t_expressionStatement(
         t_assignmentExpression("=", field(fields[i].name), values[i]))]
      \o [i \in 1..Len(params) |->
            t_expressionStatement(
              t_assignmentExpression("=", field(params[i]), id(params[i])))]

\* constructorPrelude of compileClass, given the lowered field values
constructorPrelude(params, fields, values) ==
    [i \in 1..Len(params) |->
       t_expressionStatement(
         t_assignmentExpression("=", field(params[i]), id(params[i])))]
      \o [i \in 1..Len(fields) |->
            t_expressionStatement(
              t_assignmentExpression("=", field(fields[i].name), values[i]))]

\* superPrelude of compileClass, given the lowered superclass arguments
superPrelude(superclass, superParams) ==
    IF superclass # Null
    THEN <<t_expressionStatement(t_callExpression(id("super"), superParams))>>
    ELSE <<>>

unpackPrelude_paramsOnly(params, fields) ==
    [i \in 1..Len(params) |-> defConst(id(params[i]), field(params[i]))]

\* unpackPrelude of compileClass
unpackPrelude(params, fields) ==
    [i \in 1..Len(params) |-> defConst(id(params[i]), field(params[i]))]
      \o [i \in 1..Len(fields) |->
            defConst(id(fields[i].name), field(fields[i].name))]

\* genGetters of compileClass
\* genGetters of the earlier revision of compileClass
genGetters0(isData, params) ==
    IF isData
    THEN [i \in 1..Len(params) |->
            t_classMethod("get", id(params[i]), <<>>,
              t_blockStatement(<<t_returnStatement(field(params[i]))>>))]
    ELSE <<>>

genGetters_always(isData, params) ==
    [i \in 1..Len(params) |->
       t_classMethod("get", id(params[i]), <<>>,
         t_blockStatement(<<t_returnStatement(field(params[i]))>>))]

genGetters(isData, params) ==
    IF isData
    THEN [i \in 1..Len(params) |->
            t_classMethod("get", id(params[i]), <<>>,
              t_blockStatement(<<t_returnStatement(field(params[i]))>>))]
    ELSE <<>>

\* genMethods of compileClass
genMethods(isData, name, params) ==
    IF isData
    THEN <<t_classMethod("method", id("unapply"), <<id("object")>>,
             t_blockStatement(
               <<t_ifStatement(
                   t_binaryExpression("instanceof", id("object"), id(name)),
                   t_blockStatement(
                     <<t_returnStatement(t_arrayExpression(
                         [i \in 1..Len(params) |-> field(params[i])]))>>),
                   t_blockStatement(<<t_returnStatement(t_nullLiteral)>>))>>))>>
    ELSE <<>>

compileClass(node, c) ==
    LET isData == node.tag = "Data"
        declaration == node.declaration
        name == declaration.name
        params == declaration.params
        superclass == declaration.superclass
        fields == declaration.fields
    IN  AndThen(mapCompile([i \in 1..Len(fields) |-> fields[i].value], c),
          LAMBDA values :
        AndThen(IF superclass # Null
                THEN mapCompile(superclass.params, values.c)
                ELSE Completed(<<>>, values.c),
          LAMBDA superParams :
        AndThen(mapCompileMember(declaration.members,
                                 unpackPrelude(params, fields), superParams.c),
          LAMBDA compiledMembers :
        AndThen(IF superclass # Null
                THEN compile(superclass.constructor, compiledMembers.c)
                ELSE Completed(Null, compiledMembers.c),
          LAMBDA superClass :
        Then(mapCompile(declaration.constructor, superClass.c),
          LAMBDA constructor :
            <<t_exportNamedDeclaration(
                t_classDeclaration(id(name), superClass.v,
                  t_classBody(
                    <<t_classMethod("constructor", id("constructor"),
                        ids(params),
                        t_blockStatement(
                          superPrelude(superclass, superParams.v)
                            \o constructorPrelude(params, fields, values.v)
                            \o constructor))>>
                      \o genGetters(isData, params)
                      \o genMethods(isData, name, params)
                      \o compiledMembers.v)),
                <<>>)>>)))))

compileDefinition(node, c) ==
    CASE node.type = "Import" -> compileImport(node, c)
      [] node.type = "Function" -> compileFunction(node, c)
      [] node.type = "Class" -> compileClass(node, c)
      [] OTHER -> Raised(<<"Unknown node ", node.type>>, c)

RECURSIVE flatmapCompileDefinition(_, _)
\* flatmap(module.definitions, compileDefinition)
flatmapCompileDefinition(definitions, c) ==
    IF definitions = <<>> THEN Completed(<<>>, c)
    ELSE AndThen(compileDefinition(Head(definitions), c), LAMBDA h :
           Then(flatmapCompileDefinition(Tail(definitions), h.c),
                LAMBDA t : h.v \o t))

compileModule(module, c) ==
    Then(flatmapCompileDefinition(module.definitions, c),
         LAMBDA body : t_program(body, <<>>, "module"))

-----------------------------------------------------------------------------
(* Statement sequences given to the normalizer.                            *)

MaxLen == 2      \* statements in a sequence given to fixReturns
MaxChain == 2    \* ElseIf links in the alternate chain of a conditional
MaxCases == 2    \* cases of a match in tail position

ea == VariableExpression("a")
eb == VariableExpression("b")
ep == VariableExpression("p")
one == LiteralExpression(Integer("", <<1>>))

\* A node of a kind the normalizer has no case for.
Metadata == [type |-> "Metadata"]

LoopStatements ==
    {ForeachStatement("i", ea, <<ExpressionStatement(eb)>>),
     WhileStatement(ep, <<ExpressionStatement(eb)>>),
     UntilStatement(ep, <<ExpressionStatement(eb)>>),
     ForStatement("i", one, ea, one, <<ExpressionStatement(eb)>>),
     RepeatStatement(<<ExpressionStatement(eb)>>)}

LeafStatements ==
    {ExpressionStatement(ea), LetStatement(FALSE, "x", ea),
     AssertStatement(ep, "p"), ReturnStatementNode(ea), Metadata}
      \cup LoopStatements

\* Blocks of the links of an alternate chain.
LinkBlocks ==
    {<<ExpressionStatement(ea)>>, <<LetStatement(FALSE, "x", ea)>>,
     <<ReturnStatementNode(ea)>>}

\* Blocks of match cases.
CaseBlocks ==
    {<<>>, <<ExpressionStatement(ea)>>,
     <<ExpressionStatement(eb), WhileStatement(ep, <<ExpressionStatement(eb)>>)>>,
     <<Metadata>>}

\* Blocks of the branches of a conditional: leaf-ended ones and ones that
\* end in a conditional or a match themselves.
BranchBlocks ==
    {<<>>, <<ExpressionStatement(ea)>>,
     <<ExpressionStatement(eb), ExpressionStatement(ea)>>,
     <<LetStatement(FALSE, "x", ea)>>,
     <<WhileStatement(ep, <<ExpressionStatement(eb)>>)>>,
     <<ReturnStatementNode(ea)>>,
     <<IfStatement(ep, <<ExpressionStatement(ea)>>,
                   Else(<<ExpressionStatement(eb)>>))>>,
     <<IfStatement(ep, <<ExpressionStatement(ea)>>,
                   ElseIf(IfStatement(ep, <<ExpressionStatement(eb)>>, Null)))>>,
     <<MatchStatement(Match(ea,
         <<MatchCase_case(Pattern_bind("x"), <<ExpressionStatement(ea)>>)>>))>>}

RECURSIVE Alternates(_)
Alternates(n) ==
    {Null, [type |-> "Finally", block |-> <<ExpressionStatement(ea)>>]}
      \cup {Else(b) : b \in LinkBlocks}
      \cup (IF n = 0 THEN {}
            ELSE {ElseIf(IfStatement(ep, b, a)) :
                    b \in LinkBlocks, a \in Alternates(n - 1)})

IfStatements ==
    {IfStatement(ep, b, a) : b \in BranchBlocks, a \in Alternates(MaxChain)}

MatchCases ==
    {MatchCase_case(Pattern_bind("x"), b) : b \in CaseBlocks}
      \cup {MatchCase_case_when(Pattern_literal(Integer("", <<1>>)), ep, b) :
              b \in CaseBlocks}
      \cup {MatchCase_default(b) : b \in CaseBlocks}

RECURSIVE SeqsUpTo(_, _)
SeqsUpTo(S, n) ==
    IF n = 0 THEN {<<>>}
    ELSE LET shorter == SeqsUpTo(S, n - 1)
         IN  shorter \cup {Append(s, x) : s \in shorter, x \in S}

MatchStatements ==
    {MatchStatement(Match(ea, cs)) : cs \in SeqsUpTo(MatchCases, MaxCases)}

TailStatements == LeafStatements \cup IfStatements \cup MatchStatements

RECURSIVE Repeated(_, _)
Repeated(x, n) == IF n = 0 THEN <<>> ELSE Append(Repeated(x, n - 1), x)

FixBlocks ==
    {<<>>} \cup {Append(Repeated(ExpressionStatement(eb), k), t) :
                   k \in 0..(MaxLen - 1), t \in TailStatements}

-----------------------------------------------------------------------------
(* The normalizer applied to a statement sequence, and applied again to    *)
(* its own result.                                                         *)

InitFix ==
    /\ current = 1
    /\ before = 1
    /\ op = "given"
    /\ input \in FixBlocks
    /\ output = Null
    /\ first = Null

FixReturns ==
    /\ op = "given"
    /\ op' = "fixReturns"
    /\ output' = fixReturns(input)
    /\ UNCHANGED <<current, before, input, first>>

FixReturnsAgain ==
    /\ op = "fixReturns"
    /\ output.ok
    /\ op' = "fixReturnsAgain"
    /\ first' = output
    /\ output' = fixReturns(output.v)
    /\ UNCHANGED <<current, before, input>>

FixReturns0 ==
    /\ op = "given"
    /\ op' = "fixReturns0"
    /\ output' = fixReturns0(input)
    /\ UNCHANGED <<current, before, input, first>>

NextFix == FixReturns \/ FixReturnsAgain \/ FixReturns0

SpecFix == InitFix /\ [][NextFix]_vars

-----------------------------------------------------------------------------
(* Programs given to the code generator.                                   *)

MaxCurrent == 7  \* fresh.current is not advanced beyond this
MaxDefs == 2     \* definitions of a module

ev == VariableExpression("v")
call == CallExpressionNode(VariableExpression("f"), <<ea>>)

MatchValues == {ev, call}

pLiteral == Pattern_literal(Integer("", <<1>>))
pBind == Pattern_bind("x")
pEmpty == Pattern_array(ArrayPattern_regular(<<>>))
pPair == Pattern_array(ArrayPattern_regular(<<Pattern_bind("x"), pLiteral>>))
pSpread ==
    Pattern_array(ArrayPattern_spread(<<Pattern_bind("x")>>, Pattern_bind("rest")))
pObject ==
    Pattern_object(<<PairPattern("x", Pattern_bind("x")),
                     PairPattern("y", pLiteral)>>)
pExtractor ==
    Pattern_extractor(VariableExpression("Point2d"),
                      <<Pattern_bind("x"), Pattern_bind("y")>>)
pNested ==
    Pattern_array(ArrayPattern_regular(
      <<Pattern_object(
          <<PairPattern("x",
              Pattern_array(ArrayPattern_spread(<<>>, Pattern_bind("rest"))))>>)>>))
pRegex == [type |-> "Pattern", tag |-> "Regex"]

Patterns ==
    {pLiteral, pBind, pEmpty, pPair, pSpread, pObject, pExtractor, pNested,
     pRegex}

FirstCases ==
    {MatchCase_case(p, <<ExpressionStatement(ea)>>) : p \in Patterns}
      \cup {MatchCase_case_when(pPair, ep, <<ExpressionStatement(ea)>>),
            MatchCase_case_when(pExtractor, ev, <<ExpressionStatement(ev)>>),
            MatchCase_default(<<ExpressionStatement(ev)>>),
            MatchCase_default(<<>>),
            MatchCase_case(pBind,
              <<MatchStatement(Match(ea,
                  <<MatchCase_case(pSpread, <<ExpressionStatement(ea)>>)>>))>>),
            [type |-> "MatchCase", tag |-> "Otherwise",
             block |-> <<ExpressionStatement(ea)>>]}

MoreCases ==
    {MatchCase_case(pSpread, <<ExpressionStatement(ea)>>),
     MatchCase_default(<<ExpressionStatement(ea)>>)}

CaseLists ==
    {<<>>} \cup {<<c>> \o Repeated(m, k) : c \in FirstCases, m \in MoreCases,
                                           k \in 0..(MaxCases - 1)}

Matches == {Match(v, cs) : v \in MatchValues, cs \in CaseLists}

Kinds == {"plain", "generator", "async"}

tailMatch ==
    MatchStatement(Match(ev,
      <<MatchCase_case(pPair, <<ExpressionStatement(ea)>>),
        MatchCase_default(<<ExpressionStatement(eb)>>)>>))

ifElse ==
    IfStatement(ep, <<ExpressionStatement(one)>>,
                Else(<<ExpressionStatement(LiteralExpression(Integer("", <<2>>)))>>))

\* Bodies of functions and function expressions.
Bodies ==
    {<<>>, <<ExpressionStatement(ea)>>,
     <<ExpressionStatement(eb), ExpressionStatement(ea)>>,
     <<LetStatement(FALSE, "x", ea)>>, <<AssertStatement(ep, "p")>>,
     <<ifElse>>, <<IfStatement(ep, <<ExpressionStatement(ea)>>, Null)>>,
     <<tailMatch>>, <<MatchStatement(Match(ev, <<>>))>>, <<Metadata>>}
      \cup {<<l>> : l \in LoopStatements}

\* Bodies of class members.
MemberBodies ==
    {<<ExpressionStatement(ea)>>, <<LetStatement(FALSE, "x", ea)>>,
     <<WhileStatement(ep, <<ExpressionStatement(eb)>>)>>, <<ifElse>>,
     <<tailMatch>>}

Functions ==
    {Function(FunctionSignature(k, "f", <<"x">>), b) : k \in Kinds, b \in Bodies}

MemberDeclarations ==
    {MemberDeclaration_method(k, "self", "m", <<"x">>, b) :
       k \in Kinds, b \in MemberBodies}
      \cup {MemberDeclaration_getter("self", "g", b) : b \in MemberBodies}
      \cup {MemberDeclaration_setter("self", "s", "x", b) : b \in MemberBodies}
      \cup {[type |-> "MemberField", kind |-> "plain", self |-> "self",
             name |-> "m", params |-> <<>>, block |-> b] : b \in MemberBodies}

Members ==
    {ClassMember(tag, d) : tag \in {"Static", "Instance"},
                           d \in MemberDeclarations}

Classes ==
    {Class("Data", ClassDeclaration("C", <<"x", "y">>, Null,
                                    <<ClassField("z", ea)>>, <<>>, <<m>>)) :
       m \in Members}
      \cup {Class(tag, ClassDeclaration("C", <<"x">>,
                         SuperClass(VariableExpression("B"), <<ea>>),
                         <<ClassField("z", one)>>,
                         <<ExpressionStatement(ea)>>,
                         <<ClassMember("Instance",
                             MemberDeclaration_getter("self", "g",
                               <<ExpressionStatement(ea)>>)),
                           ClassMember("Static",
                             MemberDeclaration_method("plain", "self", "m", <<>>,
                               <<tailMatch>>))>>)) :
              tag \in {"Data", "Regular"}}

Statements ==
    {ExpressionStatement(FunctionExpression(k, <<"x">>, b)) :
       k \in Kinds, b \in Bodies}
      \cup {ifElse, tailMatch} \cup LeafStatements

ModuleDefinitions ==
    {Function(FunctionSignature("plain", "f", <<"x">>), <<tailMatch>>),
     Function(FunctionSignature("plain", "g", <<>>),
       <<MatchStatement(Match(call,
           <<MatchCase_case(pBind,
               <<MatchStatement(Match(ea,
                   <<MatchCase_case(pSpread,
                       <<ExpressionStatement(ea)>>)>>))>>)>>))>>),
     Class("Data", ClassDeclaration("C", <<"x">>, Null, <<>>, <<>>,
       <<ClassMember("Instance",
           MemberDeclaration_method("plain", "self", "m", <<>>,
             <<MatchStatement(Match(ev,
                 <<MatchCase_case(pExtractor,
                     <<ExpressionStatement(ea)>>)>>))>>))>>)),
     Class("Regular", ClassDeclaration("D", <<"x">>,
       SuperClass(VariableExpression("C"), <<ev>>), <<>>, <<>>, <<>>)),
     [type |-> "Import", tag |-> "As", id |-> [type |-> "String", value |-> "m"],
      alias |-> "M"]}

Modules == {Program(ds) : ds \in SeqsUpTo(ModuleDefinitions, MaxDefs)}

-----------------------------------------------------------------------------
(* The exported lowerings called one after another in one process: the     *)
(* counter of fresh names lives as long as the process.                    *)

Init ==
    /\ current = 1
    /\ before = 1
    /\ op = "init"
    /\ input = Null
    /\ output = Null
    /\ first = Null

Lowered(name, node, result) ==
    \E r \in {result} :
       /\ r.c <= MaxCurrent
       /\ op' = name
       /\ input' = node
       /\ output' = r
       /\ before' = current
       /\ current' = r.c
       /\ UNCHANGED first

Compile == \E match \in Matches :
    Lowered("compile", MatchStatement(match),
            compile(MatchStatement(match), current))

CompileModule == \E module \in Modules :
    Lowered("compileModule", module, compileModule(module, current))

Next == Compile \/ CompileModule

Spec == Init /\ [][Next]_vars

-----------------------------------------------------------------------------
(* One definition or statement lowered in a process of its own.            *)

\* The operator tokens of the grammar, and two that are none of them.
Operators == DOMAIN MangleTable \cup {"%", "~"}

Operands == {ea, one, BinaryExpression_binary(ea, "+", eb),
             BinaryExpression_binary(ea, "%", eb)}

OperatorExpressions ==
    {BinaryExpression_binary(l, o, eb) : l \in Operands, o \in Operators}
      \cup {UnaryExpression_not(o, a) : o \in Operators, a \in Operands}
      \cup {Property_at(ev, k) : k \in Operands}
      \cup {AssignExpression_assign(ev, one, a) : a \in Operands}

InitLower ==
    /\ current = 1
    /\ before = 1
    /\ op = "given"
    /\ input \in Functions \cup Classes \cup Statements \cup OperatorExpressions
    /\ output = Null
    /\ first = Null

CompileFunction ==
    /\ op = "given"
    /\ input.type = "Function"
    /\ Lowered("compileFunction", input, compileFunction(input, current))

CompileClass ==
    /\ op = "given"
    /\ input.type = "Class"
    /\ Lowered("compileClass", input, compileClass(input, current))

CompileStatement ==
    /\ op = "given"
    /\ input.type \notin {"Function", "Class"}
    /\ Lowered("compile", input, compile(input, current))

NextLower == CompileFunction \/ CompileClass \/ CompileStatement

SpecLower == InitLower /\ [][NextLower]_vars

-----------------------------------------------------------------------------
(* The generated program run: the JavaScript values it computes with, and  *)
(* the evaluation of the Babel nodes the lowering emits. An evaluation     *)
(* carries tr, the sequence of what has been executed so far.              *)

VNumber(n) == [type |-> "number", value |-> n]
\* A string is the sequence of the pieces it is concatenated from.
VString(s) == [type |-> "string", value |-> s]
VBoolean(b) == [type |-> "boolean", value |-> b]
VNull == [type |-> "null"]
VUndefined == [type |-> "undefined"]
VArray(items) == [type |-> "array", items |-> items]
\* An object: its own keys, and the value of each, in insertion order.
VObject(keys, values) == [type |-> "object", keys |-> keys, values |-> values]
\* A function that returns the value returns whatever it is called with.
VFunction(returns) == [type |-> "function", returns |-> returns]
\* The global of the name: Array, Error.
VGlobal(name) == [type |-> "global", name |-> name]
VError(name, message) == [type |-> "error", name |-> name, message |-> message]

\* An expression evaluated to v, or throwing error.
Value(v, tr) == [ok |-> TRUE, v |-> v, tr |-> tr]
Abrupt(error, tr) == [ok |-> FALSE, error |-> error, tr |-> tr]

\* A statement completed: kind is "normal", "return" or "throw".
Completion(kind, v, env, tr) == [kind |-> kind, v |-> v, env |-> env, tr |-> tr]

\* ToBoolean
Truthy(v) ==
    CASE v.type = "boolean" -> v.value
      [] v.type = "number" -> v.value # 0
      [] v.type = "string" -> v.value \notin {<<>>, <<"">>}
      [] v.type \in {"null", "undefined"} -> FALSE
      [] OTHER -> TRUE

\* typeof
TypeOfValue(v) ==
    CASE v.type \in {"number", "string", "boolean", "undefined", "function"} ->
           v.type
      [] v.type = "global" -> "function"
      [] OTHER -> "object"

\* a === b, for operands of which one is a primitive
StrictEquals(a, b) ==
    /\ a.type = b.type
    /\ CASE a.type \in {"number", "string", "boolean"} -> a.value = b.value
         [] a.type \in {"null", "undefined"} -> TRUE
         [] OTHER -> FALSE

\* a == b, for operands of which one is null
LooseEquals(a, b) ==
    IF a.type \in {"null", "undefined"} \/ b.type \in {"null", "undefined"}
    THEN a.type \in {"null", "undefined"} /\ b.type \in {"null", "undefined"}
    ELSE StrictEquals(a, b)

RECURSIVE IndexOfKey(_, _, _)
\* The place of key among the first n keys, 0 when it is none of them.
IndexOfKey(keys, key, n) ==
    IF n = 0 THEN 0
    ELSE IF <<keys[n]>> = key THEN n ELSE IndexOfKey(keys, key, n - 1)

\* o[key], for o that is neither null nor undefined
GetValue(o, key) ==
    CASE o.type = "array" /\ key.type = "number" ->
           IF key.value >= 0 /\ key.value < Len(o.items)
           THEN o.items[key.value + 1] ELSE VUndefined
      [] o.type = "array" /\ key.type = "string" ->
           CASE key.value = <<"length">> -> VNumber(Len(o.items))
             [] key.value = <<"slice">> -> [type |-> "method", name |-> "slice"]
             [] OTHER -> VUndefined
      [] o.type = "object" /\ key.type = "string" ->
           LET i == IndexOfKey(o.keys, key.value, Len(o.keys))
           IN  IF i = 0 THEN VUndefined ELSE o.values[i]
      [] o.type = "global" /\ key.type = "string" ->
           IF o.name = "Array" /\ key.value = <<"isArray">>
           THEN [type |-> "method", name |-> "isArray"] ELSE VUndefined
      [] OTHER -> VUndefined

RECURSIVE Lookup(_, _, _)
\* The binding of name among the first n bindings of env, innermost first.
Lookup(env, name, n) ==
    IF n = 0 THEN 0
    ELSE IF env[n].name = name THEN n ELSE Lookup(env, name, n - 1)

\* What has been executed: a declaration, a test, a projection, a call, an
\* expression statement, a return.
Declared(name, v) == [type |-> "declare", name |-> name, value |-> v]
Tested(test, result) == [type |-> "test", test |-> test, result |-> result]
Projected(object, key) == [type |-> "project", object |-> object, key |-> key]
Called(method, argument) ==
    [type |-> "call", method |-> method, argument |-> argument]
Executed(expression) == [type |-> "statement", expression |-> expression]
Returned(argument) == [type |-> "return", argument |-> argument]

RECURSIVE Evaluate(_, _, _)
RECURSIVE EvaluateAll(_, _, _)
RECURSIVE Execute(_, _, _)
RECURSIVE ExecuteAll(_, _, _)

\* The arguments of a call, left to right.
EvaluateAll(nodes, env, tr) ==
    IF nodes = <<>> THEN Value(<<>>, tr)
    ELSE AndThen(Evaluate(Head(nodes), env, tr), LAMBDA h :
           Bind(EvaluateAll(Tail(nodes), env, h.tr), LAMBDA t :
             IF t.ok THEN Value(<<h.v>> \o t.v, t.tr) ELSE t))

\* f(...args), with this the object the function was read from
CallValue(f, this, name, args, tr) ==
    CASE f.type = "function" ->
           Value(f.returns,
                 Append(tr, Called(name, IF args = <<>> THEN VUndefined
                                         ELSE args[1])))
      [] f.type = "method" /\ f.name = "isArray" ->
           Value(VBoolean(args # <<>> /\ args[1].type = "array"), tr)
      [] f.type = "method" /\ f.name = "slice" ->
           Value(VArray(SubSeq(this.items, args[1].value + 1, Len(this.items))),
                 tr)
      [] f.type = "global" /\ f.name = "Error" ->
           Value(VError("Error", IF args = <<>> THEN <<>> ELSE args[1].value), tr)
      [] OTHER ->
           Abrupt(VError("TypeError", <<name, " is not a function">>), tr)

\* object[property] or object.property
EvaluateMember(node, env, tr) ==
    AndThen(Evaluate(node.object, env, tr), LAMBDA o :
      AndThen(IF node.computed THEN Evaluate(node.property, env, o.tr)
              ELSE Value(VString(<<node.property.name>>), o.tr),
              LAMBDA key :
                IF o.v.type \in {"null", "undefined"}
                THEN Abrupt(VError("TypeError",
                              <<"Cannot read properties of ", o.v.type>>), key.tr)
                ELSE [ok |-> TRUE, v |-> GetValue(o.v, key.v), this |-> o.v,
                      tr |-> IF node.computed
                             THEN Append(key.tr, Projected(node.object, key.v))
                             ELSE key.tr]))

\* callee(...arguments)
EvaluateCall(node, env, tr) ==
    AndThen(IF node.callee.type = "MemberExpression"
            THEN EvaluateMember(node.callee, env, tr)
            ELSE Bind(Evaluate(node.callee, env, tr), LAMBDA f :
                   IF f.ok
                   THEN [ok |-> TRUE, v |-> f.v, this |-> VUndefined,
                         tr |-> f.tr]
                   ELSE f),
            LAMBDA f :
              AndThen(EvaluateAll(node.arguments, env, f.tr), LAMBDA args :
                CallValue(f.v, f.this,
                          IF node.callee.type = "MemberExpression"
                          THEN node.callee.property.name ELSE node.callee.name,
                          args.v, args.tr)))

Evaluate(node, env, tr) ==
    CASE node.type = "Identifier" ->
           LET i == Lookup(env, node.name, Len(env))
           IN  IF i # 0 THEN Value(env[i].value, tr)
               ELSE IF node.name \in {"Array", "Error"}
               THEN Value(VGlobal(node.name), tr)
               ELSE Abrupt(VError("ReferenceError",
                             <<node.name, " is not defined">>), tr)
      [] node.type = "NumericLiteral" -> Value(VNumber(node.value), tr)
      [] node.type = "StringLiteral" -> Value(VString(node.value), tr)
      [] node.type = "BooleanLiteral" -> Value(VBoolean(node.value), tr)
      [] node.type = "NullLiteral" -> Value(VNull, tr)
      [] node.type = "UnaryExpression" ->
           AndThen(Evaluate(node.argument, env, tr), LAMBDA a :
             CASE node.operator = "typeof" ->
                    Value(VString(<<TypeOfValue(a.v)>>), a.tr)
               [] node.operator = "!" -> Value(VBoolean(~Truthy(a.v)), a.tr))
      [] node.type = "LogicalExpression" ->
           AndThen(Evaluate(node.left, env, tr), LAMBDA l :
             IF Truthy(l.v) THEN Evaluate(node.right, env, l.tr) ELSE l)
      [] node.type = "BinaryExpression" ->
           AndThen(Evaluate(node.left, env, tr), LAMBDA l :
             AndThen(Evaluate(node.right, env, l.tr), LAMBDA r :
               Value(VBoolean(
                       CASE node.operator = "===" -> StrictEquals(l.v, r.v)
                         [] node.operator = "!==" -> ~StrictEquals(l.v, r.v)
                         [] node.operator = "==" -> LooseEquals(l.v, r.v)
                         [] node.operator = "!=" -> ~LooseEquals(l.v, r.v)
                         [] node.operator = ">=" ->
                              /\ l.v.type = "number"
                              /\ r.v.type = "number"
                              /\ l.v.value >= r.v.value),
                     r.tr)))
      [] node.type = "MemberExpression" -> EvaluateMember(node, env, tr)
      [] node.type = "CallExpression" -> EvaluateCall(node, env, tr)

\* The statements of a block, in order, until one completes abruptly.
ExecuteAll(nodes, env, tr) ==
    IF nodes = <<>> THEN Completion("normal", VUndefined, env, tr)
    ELSE Bind(Execute(Head(nodes), env, tr), LAMBDA h :
           IF h.kind = "normal" THEN ExecuteAll(Tail(nodes), h.env, h.tr)
           ELSE h)

\* The statement node run with the bindings env. A throw carries the error,
\* a return the value; a block ends the scope of what it declared.
Execute(node, env, tr) ==
    CASE node.type = "VariableDeclaration" ->
           Bind(Evaluate(node.declarations[1].init, env, tr), LAMBDA init :
             IF ~init.ok THEN Completion("throw", init.error, env, init.tr)
             ELSE LET name == node.declarations[1].id.name
                  IN  Completion("normal", VUndefined,
                        Append(env, [name |-> name, value |-> init.v]),
                        Append(init.tr, Declared(name, init.v))))
      [] node.type = "ExpressionStatement" ->
           Bind(Evaluate(node.expression, env, tr), LAMBDA e :
             IF ~e.ok THEN Completion("throw", e.error, env, e.tr)
             ELSE Completion("normal", VUndefined, env,
                             Append(e.tr, Executed(node.expression))))
      [] node.type = "ReturnStatement" ->
           Bind(Evaluate(node.argument, env, tr), LAMBDA e :
             IF ~e.ok THEN Completion("throw", e.error, env, e.tr)
             ELSE Completion("return", e.v, env,
                             Append(e.tr, Returned(node.argument))))
      [] node.type = "ThrowStatement" ->
           Bind(Evaluate(node.argument, env, tr), LAMBDA e :
             IF ~e.ok THEN Completion("throw", e.error, env, e.tr)
             ELSE Completion("throw", e.v, env, e.tr))
      [] node.type = "BlockStatement" ->
           Bind(ExecuteAll(node.body, env, tr), LAMBDA b :
             Completion(b.kind, b.v, env, b.tr))
      [] node.type = "IfStatement" ->
           Bind(Evaluate(node.test, env, tr), LAMBDA test :
             IF ~test.ok THEN Completion("throw", test.error, env, test.tr)
             ELSE Bind(Append(test.tr, Tested(node.test, Truthy(test.v))),
                    LAMBDA tested :
                      IF Truthy(test.v)
                      THEN Execute(node.consequent, env, tested)
                      ELSE IF node.alternate # Null
                      THEN Execute(node.alternate, env, tested)
                      ELSE Completion("normal", VUndefined, env, tested)))
      [] node.type = "WhileStatement" ->
           Bind(Evaluate(node.test, env, tr), LAMBDA test :
             IF ~test.ok THEN Completion("throw", test.error, env, test.tr)
             ELSE IF ~Truthy(test.v)
             THEN Completion("normal", VUndefined, env, test.tr)
             ELSE Bind(Execute(node.body, env, test.tr), LAMBDA b :
                    IF b.kind = "normal" THEN Execute(node, env, b.tr) ELSE b))

-----------------------------------------------------------------------------
(* Functions lowered and then called: a match on the parameter v, in last  *)
(* place of the body or followed by a statement.                           *)

MaxRunCases == 2   \* cases of a match of a function that is called
MaxItems == 4      \* elements of an array a function is called with

\* The body of the case in place i mentions b<i>.
BodyNames == <<"b1", "b2", "b3", "b4">>
bodyOf(i) == VariableExpression(BodyNames[i])

\* The case blocks the normalizer accepts: ending in an expression, empty,
\* ending in a let, ending in a loop.
RunBlocks(i) ==
    {<<ExpressionStatement(bodyOf(i))>>, <<>>,
     <<LetStatement(FALSE, "t", bodyOf(i))>>,
     <<WhileStatement(VariableExpression("q"),
                      <<ExpressionStatement(bodyOf(i))>>)>>}

lit(n) == Pattern_literal(Integer("", <<n>>))

\* Cases whose order of execution is observed.
OrderCases(i) ==
    {MatchCase_case(p, b) : p \in {Pattern_bind("x"), lit(1)}, b \in RunBlocks(i)}
      \cup {MatchCase_case_when(Pattern_bind("x"), VariableExpression("p"),
                                <<ExpressionStatement(bodyOf(i))>>),
            MatchCase_default(<<ExpressionStatement(bodyOf(i))>>),
            MatchCase_default(<<>>)}

RECURSIVE OrderCaseLists(_)
OrderCaseLists(n) ==
    IF n = 0 THEN {<<>>}
    ELSE OrderCaseLists(n - 1)
           \cup {Append(cs, c) : cs \in {l \in OrderCaseLists(n - 1) :
                                          Len(l) = n - 1},
                                 c \in OrderCases(n)}

pTriple ==
    Pattern_array(ArrayPattern_spread(<<Pattern_bind("a"), Pattern_bind("b")>>,
                                      Pattern_bind("rest")))
pRest == Pattern_array(ArrayPattern_spread(<<>>, Pattern_bind("rest")))
pSpreadOne ==
    Pattern_array(ArrayPattern_spread(<<lit(1)>>,
      Pattern_array(ArrayPattern_regular(<<Pattern_bind("x")>>))))
pRecord ==
    Pattern_object(<<PairPattern("x", lit(1)), PairPattern("y", lit(2))>>)
pPoint ==
    Pattern_extractor(VariableExpression("Point2d"),
                      <<Pattern_bind("x"), lit(2)>>)
pInPoint ==
    Pattern_array(ArrayPattern_regular(<<pExtractor, Pattern_bind("z")>>))

\* One name bound twice in one pattern.
pTwice ==
    Pattern_array(ArrayPattern_regular(<<Pattern_bind("x"), Pattern_bind("x")>>))
pSpreadTwice ==
    Pattern_array(ArrayPattern_spread(<<Pattern_bind("x")>>, Pattern_bind("x")))

ArrayPatterns == {pEmpty, pPair, pNested, pTwice}
SpreadPatterns == {pSpread, pTriple, pRest, pSpreadOne, pSpreadTwice}
ObjectPatterns == {pObject, pRecord}
ExtractorPatterns == {pExtractor, pPoint, pInPoint}

RunPatterns ==
    {lit(1), Pattern_bind("x")} \cup ArrayPatterns \cup SpreadPatterns
      \cup ObjectPatterns \cup ExtractorPatterns

\* One patterned case, and a default after it.
PatternCaseLists ==
    {<<MatchCase_case(p, <<ExpressionStatement(bodyOf(1))>>),
       MatchCase_default(<<ExpressionStatement(bodyOf(2))>>)>> :
       p \in RunPatterns}
      \cup {<<MatchCase_case_when(p, VariableExpression("p"),
                                  <<ExpressionStatement(bodyOf(1))>>),
              MatchCase_default(<<ExpressionStatement(bodyOf(2))>>)>> :
              p \in {pPair, pExtractor}}
      \cup {<<MatchCase_case_when(pPair, VariableExpression("x"),
                                  <<ExpressionStatement(bodyOf(1))>>),
              MatchCase_default(<<ExpressionStatement(bodyOf(2))>>)>>}

done == VariableExpression("done")

\* f(v): the match in last place, and the match followed by a statement.
RunFunction(cases, tail) ==
    Function(FunctionSignature("plain", "f", <<"v">>),
             <<MatchStatement(Match(ev, cases))>>
               \o (IF tail THEN <<>> ELSE <<ExpressionStatement(done)>>))

Numbers(n) == [i \in 1..n |-> VNumber(i)]

ArrayValues == {VArray(Numbers(n)) : n \in 0..MaxItems}

ObjectValues ==
    {VObject(<<"x", "y">>, <<VNumber(1), VNumber(2)>>),
     VObject(<<"x", "y", "z">>, <<VNumber(1), VNumber(2), VNumber(9)>>),
     VObject(<<"y">>, <<VNumber(1)>>),
     VObject(<<"x">>, <<VArray(Numbers(2))>>),
     VObject(<<>>, <<>>)}

RunValues ==
    {VNumber(1), VNumber(2), VString(<<"s">>), VBoolean(TRUE), VNull,
     VUndefined, VArray(<<VObject(<<"x">>, <<VArray(Numbers(2))>>)>>),
     VArray(<<VNumber(5), VNumber(1)>>)}
      \cup ArrayValues \cup ObjectValues

\* Pairs that end in 1, the first item true and false as a condition.
PairValues ==
    {VArray(<<VNumber(5), VNumber(1)>>), VArray(<<VNumber(0), VNumber(1)>>)}

\* What Point2d.unapply returns.
UnapplyResults ==
    {VNull, VUndefined, VNumber(5), VString(<<"s">>), VBoolean(FALSE),
     VObject(<<"x">>, <<VNumber(1)>>), VArray(<<>>), VArray(Numbers(1)),
     VArray(Numbers(2)), VArray(Numbers(3))}

RECURSIVE HasExtractor(_)
RECURSIVE AnyHasExtractor(_)
HasExtractor(pattern) ==
    CASE pattern.tag = "Extractor" -> TRUE
      [] pattern.tag = "Array" ->
           \/ AnyHasExtractor(pattern.pattern.items)
           \/ pattern.pattern.tag = "Spread" /\ HasExtractor(pattern.pattern.spread)
      [] pattern.tag = "Object" ->
           AnyHasExtractor([i \in 1..Len(pattern.pairs) |-> pattern.pairs[i].pattern])
      [] OTHER -> FALSE

AnyHasExtractor(patterns) ==
    \E i \in 1..Len(patterns) : HasExtractor(patterns[i])

\* A call of f: the function, the argument, what p and Point2d.unapply
\* give. What a function does not use is fixed.
RunCall(function, argument, p, unapplied) ==
    [type |-> "Call", function |-> function, argument |-> argument, p |-> p,
     unapplied |-> unapplied]

RunCalls ==
    {RunCall(RunFunction(cs, tail), v, p, VNull) :
       cs \in OrderCaseLists(MaxRunCases), tail \in BOOLEAN,
       v \in {VNumber(1), VNumber(2)}, p \in BOOLEAN}
      \cup {RunCall(RunFunction(cs, tail), v, TRUE, VNull) :
              cs \in {l \in PatternCaseLists :
                        ~HasExtractor(l[1].pattern) /\ l[1].tag = "Case"},
              tail \in BOOLEAN, v \in RunValues}
      \cup {RunCall(RunFunction(cs, tail), v, p, VNull) :
              cs \in {l \in PatternCaseLists :
                        ~HasExtractor(l[1].pattern) /\ l[1].tag = "When"},
              tail \in BOOLEAN, v \in ArrayValues \cup PairValues,
              p \in BOOLEAN}
      \cup {RunCall(RunFunction(cs, tail), v, p, r) :
              cs \in {l \in PatternCaseLists : HasExtractor(l[1].pattern)},
              tail \in BOOLEAN,
              v \in {VNumber(1), VArray(Numbers(2))}, p \in {TRUE},
              r \in UnapplyResults}

\* The bindings the body of f runs with: the module's names, then the
\* argument.
RunEnv(request) ==
    <<[name |-> "b1", value |-> VNumber(11)],
      [name |-> "b2", value |-> VNumber(12)],
      [name |-> "b3", value |-> VNumber(13)],
      [name |-> "b4", value |-> VNumber(14)],
      [name |-> "done", value |-> VNumber(99)],
      [name |-> "q", value |-> VBoolean(FALSE)],
      [name |-> "p", value |-> VBoolean(request.p)],
      [name |-> "Point2d",
       value |-> VObject(<<"unapply">>, <<VFunction(request.unapplied)>>)],
      [name |-> "v", value |-> request.argument]>>

InitRun ==
    /\ current = 1
    /\ before = 1
    /\ op = "given"
    /\ input \in RunCalls
    /\ output = Null
    /\ first = Null

\* compileFunction(input.function): first becomes what it returns.
LowerFunction ==
    /\ op = "given"
    /\ \E r \in {compileFunction(input.function, current)} :
          /\ op' = "lowered"
          /\ first' = r
          /\ before' = current
          /\ current' = r.c
    /\ UNCHANGED <<input, output>>

\* f(input.argument) in the generated program: the body of the function
\* declaration run with v bound to the argument.
CallFunction ==
    /\ op = "lowered"
    /\ first.ok
    /\ op' = "called"
    /\ output' = Execute(first.v[1].declaration.body, RunEnv(input), <<>>)
    /\ UNCHANGED <<current, before, input, first>>

NextRun == LowerFunction \/ CallFunction

SpecRun == InitRun /\ [][NextRun]_vars

-----------------------------------------------------------------------------
(* Properties of the normalizer.                                           *)

ValuelessTypes == {"LetStatement", "AssertStatement"} \cup LoopTypes

RECURSIVE Rejected(_)
RECURSIVE RejectedAlternate(_)

\* The sequences the normalizer is specified to refuse: the last statement,
\* or that of a tail branch block or tail case block, is of no known kind,
\* or an alternate is neither ElseIf nor Else.
Rejected(block) ==
    /\ Len(block) > 0
    /\ LET last == Last(block)
       IN  CASE last.type = "ExpressionStatement" -> FALSE
             [] last.type \in ValuelessTypes -> FALSE
             [] last.type = "IfStatement" ->
                  \/ Rejected(last.block)
                  \/ RejectedAlternate(last.alternate)
             [] last.type = "MatchStatement" ->
                  \E i \in 1..Len(last.match.cases) :
                     Rejected(last.match.cases[i].block)
             [] OTHER -> TRUE

RejectedAlternate(node) ==
    CASE node = Null -> FALSE
      [] node.type = "ElseIf" ->
           \/ Rejected(node.if.block)
           \/ RejectedAlternate(node.if.alternate)
      [] node.type = "Else" -> Rejected(node.block)
      [] OTHER -> TRUE

\* A branch block and its normalized form: an expression statement in last
\* place has become a return statement of the same expression.
TailReturned(inBlock, outBlock) ==
    /\ Len(outBlock) = Len(inBlock)
    /\ Len(inBlock) > 0 /\ Last(inBlock).type = "ExpressionStatement" =>
         /\ Last(outBlock).type = "ReturnStatement"
         /\ Last(outBlock).expression = Last(inBlock).expression

RECURSIVE ChainReturned(_, _)
ChainReturned(inIf, outIf) ==
    /\ outIf.type = "IfStatement"
    /\ outIf.test = inIf.test
    /\ TailReturned(inIf.block, outIf.block)
    /\ CASE inIf.alternate = Null -> outIf.alternate = Null
         [] inIf.alternate.type = "ElseIf" ->
              /\ outIf.alternate.type = "ElseIf"
              /\ ChainReturned(inIf.alternate.if, outIf.alternate.if)
         [] inIf.alternate.type = "Else" ->
              /\ outIf.alternate.type = "Else"
              /\ TailReturned(inIf.alternate.block, outIf.alternate.block)
         [] OTHER -> FALSE


\* C3: fixReturns applied to its own result completes and returns that
\* result again.
C3_Idempotent ==
    op = "fixReturnsAgain" => output.ok /\ output.v = first.v

\* C4: on a sequence ending in a conditional that the normalizer is specified
\* to accept, fixReturns completes and returns the conditional with the same
\* test and the same chain shape, every branch block normalized.
C4_ConditionalBranchesNormalized ==
    (/\ op = "fixReturns"
     /\ Len(input) > 0
     /\ Last(input).type = "IfStatement"
     /\ ~Rejected(input))
      => /\ output.ok
         /\ Len(output.v) = Len(input)
         /\ Front(output.v) = Front(input)
         /\ ChainReturned(Last(input), Last(output.v))

\* C6: a sequence ending in an expression statement comes back with the same
\* length, the same leading statements, and a return statement of the same
\* expression in last place; the empty sequence comes back empty.
C6_ExpressionBecomesReturn ==
    op \in {"fixReturns", "fixReturns0"} =>
      /\ Len(input) = 0 => output = Return(<<>>)
      /\ Len(input) > 0 /\ Last(input).type = "ExpressionStatement" =>
           /\ output.ok
           /\ Len(output.v) = Len(input)
           /\ Last(output.v).type = "ReturnStatement"
           /\ DOMAIN Last(output.v) = {"type", "expression"}
           /\ Last(output.v).expression = Last(input).expression
           /\ \A i \in 1..(Len(input) - 1) : output.v[i] = input[i]

C6_Witness ==
    /\ op = "fixReturns"
    /\ Len(input) = MaxLen
    /\ Last(input).type = "ExpressionStatement"
    /\ output.ok
    /\ Last(output.v).type = "ReturnStatement"

\* C7: a sequence ending in a match comes back ending in a match of the same
\* value whose cases, in the same order, keep tag, pattern and predicate and
\* carry the normalized block; it is refused exactly when the normalizer
\* refuses one of the case blocks.
C7_MatchCasesNormalized ==
    (op = "fixReturns" /\ Len(input) > 0 /\ Last(input).type = "MatchStatement")
      => LET inCases == Last(input).match.cases
         IN  /\ output.ok <=>
                  \A i \in 1..Len(inCases) : fixReturns(inCases[i].block).ok
             /\ output.ok =>
                  LET out == Last(output.v)
                  IN  /\ Len(output.v) = Len(input)
                      /\ Front(output.v) = Front(input)
                      /\ out.type = "MatchStatement"
                      /\ out.match.type = "Match"
                      /\ out.match.value = Last(input).match.value
                      /\ Len(out.match.cases) = Len(inCases)
                      /\ \A i \in 1..Len(inCases) :
                           /\ DOMAIN out.match.cases[i] = DOMAIN inCases[i]
                           /\ \A f \in DOMAIN inCases[i] \ {"block"} :
                                out.match.cases[i][f] = inCases[i][f]
                           /\ out.match.cases[i].block =
                                fixReturns(inCases[i].block).v

C7_Witness ==
    /\ op = "fixReturns"
    /\ Len(input) > 0
    /\ Last(input).type = "MatchStatement"
    /\ output.ok
    /\ Len(Last(input).match.cases) = MaxCases
    /\ \E i \in 1..MaxCases :
         /\ Last(input).match.cases[i].tag = "When"
         /\ Len(Last(input).match.cases[i].block) > 0
         /\ Last(Last(output.v).match.cases[i].block).type = "ReturnStatement"

\* C8: a sequence ending in a let, an assert or a loop comes back equal to
\* itself, element for element.
C8_ValuelessUnchanged ==
    (op = "fixReturns" /\ Len(input) > 0 /\ Last(input).type \in ValuelessTypes)
      => output = Return(input)

C8_Witness ==
    /\ op = "fixReturns"
    /\ Len(input) = MaxLen
    /\ Last(input).type = "WhileStatement"
    /\ Last(Last(input).block).type = "ExpressionStatement"
    /\ output.ok

\* C9: fixReturns raises exactly on the sequences it is specified to refuse.
C9_RaisesExactlyOnUnknown ==
    op = "fixReturns" => (~output.ok <=> Rejected(input))

-----------------------------------------------------------------------------
(* Properties of the pattern compiler and of the counter of fresh names.   *)

RECURSIVE Occurrences(_, _)
RECURSIVE OccurrencesIn(_, _)
RECURSIVE Declarations(_, _)
RECURSIVE DeclarationsIn(_, _)
RECURSIVE Mentions(_, _)
RECURSIVE MentionsIn(_, _)

\* The nodes a Babel node holds, in order.
Parts(node) ==
    CASE node.type = "Program" -> node.body
      [] node.type = "ExportNamedDeclaration" -> <<node.declaration>>
      [] node.type = "ImportDeclaration" -> node.specifiers \o <<node.source>>
      [] node.type = "ImportNamespaceSpecifier" -> <<node.local>>
      [] node.type = "FunctionDeclaration" ->
           <<node.id>> \o node.params \o <<node.body>>
      [] node.type = "ClassDeclaration" ->
           <<node.id>>
             \o (IF node.superClass = Null THEN <<>> ELSE <<node.superClass>>)
             \o <<node.body>>
      [] node.type = "ClassBody" -> node.body
      [] node.type = "ClassMethod" -> <<node.key>> \o node.params \o <<node.body>>
      [] node.type = "VariableDeclaration" -> node.declarations
      [] node.type = "VariableDeclarator" -> <<node.id, node.init>>
      [] node.type = "BlockStatement" -> node.body
      [] node.type = "IfStatement" ->
           <<node.test, node.consequent>>
             \o (IF node.alternate = Null THEN <<>> ELSE <<node.alternate>>)
      [] node.type \in {"WhileStatement", "DoWhileStatement"} ->
           <<node.test, node.body>>
      [] node.type = "ForOfStatement" -> <<node.left, node.right, node.body>>
      [] node.type \in {"ExpressionStatement"} -> <<node.expression>>
      [] node.type \in {"ReturnStatement", "ThrowStatement", "UnaryExpression"} ->
           <<node.argument>>
      [] node.type \in {"BinaryExpression", "LogicalExpression",
                        "AssignmentExpression"} -> <<node.left, node.right>>
      [] node.type \in {"CallExpression", "NewExpression"} ->
           <<node.callee>> \o node.arguments
      [] node.type = "MemberExpression" -> <<node.object, node.property>>
      [] node.type = "ArrayExpression" -> node.elements
      [] OTHER -> <<>>

\* How many times the node x occurs in the Babel tree node.
Occurrences(x, node) ==
    (IF node = x THEN 1 ELSE 0) + OccurrencesIn(x, Parts(node))

OccurrencesIn(x, nodes) ==
    IF nodes = <<>> THEN 0
    ELSE Occurrences(x, Head(nodes)) + OccurrencesIn(x, Tail(nodes))

\* How many declarators of the Babel tree node declare the identifier x.
Declarations(x, node) ==
    (IF node.type = "VariableDeclarator" /\ node.id = x THEN 1 ELSE 0)
      + DeclarationsIn(x, Parts(node))

DeclarationsIn(x, nodes) ==
    IF nodes = <<>> THEN 0
    ELSE Declarations(x, Head(nodes)) + DeclarationsIn(x, Tail(nodes))

\* The nodes a source node holds, for the nodes of matches.
SourceParts(node) ==
    CASE node.type = "MatchStatement" -> <<node.match.value>> \o node.match.cases
      [] node.type = "MatchCase" ->
           (IF node.tag \in {"When", "Case"} THEN <<node.pattern>> ELSE <<>>)
             \o (IF node.tag = "When" THEN <<node.predicate>> ELSE <<>>)
             \o node.block
      [] node.type = "Pattern" ->
           CASE node.tag = "Extractor" -> <<node.object>> \o node.patterns
             [] node.tag = "Array" ->
                  node.pattern.items
                    \o (IF node.pattern.tag = "Spread"
                        THEN <<node.pattern.spread>> ELSE <<>>)
             [] node.tag = "Object" ->
                  [i \in 1..Len(node.pairs) |-> node.pairs[i].pattern]
             [] OTHER -> <<>>
      [] node.type = "ExpressionStatement" -> <<node.expression>>
      [] node.type = "CallExpression" -> <<node.callee>> \o node.params
      [] OTHER -> <<>>

\* How many times the expression x is written in the source tree node.
Mentions(x, node) ==
    (IF node = x THEN 1 ELSE 0) + MentionsIn(x, SourceParts(node))

MentionsIn(x, nodes) ==
    IF nodes = <<>> THEN 0
    ELSE Mentions(x, Head(nodes)) + MentionsIn(x, Tail(nodes))

\* The cases the parser builds, with the patterns it builds.
KnownCase(matchCase) ==
    /\ matchCase.tag \in {"When", "Case", "Default"}
    /\ matchCase.tag # "Default" => matchCase.pattern.tag # "Regex"

\* The operand the first statement of a lowered case tests or binds.
Guard(statement) ==
    IF statement.type = "IfStatement" THEN statement.test
    ELSE statement.declarations[1].init

\* C1: the lowering of a match completes; its first statement is one const
\* declaration of the fresh temporary, initialised with the lowered value
\* expression; one statement follows per case; the lowered value expression
\* occurs once more in the output than the cases of the source write it
\* themselves; the first statement of every case that has a pattern tests or
\* binds the temporary and not the value expression.
C1_ValueBoundOnce ==
    (/\ op = "compile"
     /\ \A i \in 1..Len(input.match.cases) : KnownCase(input.match.cases[i]))
      => /\ output.ok
         /\ LET match == input.match
                statements == output.v.body
                temporary == id(RefNames[before])
                value == compile(match.value, before + 1).v
            IN  /\ Len(statements) = 1 + Len(match.cases)
                /\ statements[1] = defConst(temporary, value)
                /\ statements[1].kind = "const"
                /\ Declarations(temporary, output.v) = 1
                /\ Occurrences(value, output.v)
                     = 1 + MentionsIn(match.value, match.cases)
                /\ \A i \in 1..Len(match.cases) :
                     match.cases[i].tag # "Default" =>
                       LET guard == Guard(statements[i + 1].body[1])
                       IN  /\ Occurrences(temporary, guard) >= 1
                           /\ Occurrences(value, guard) = 0

C1_Witness ==
    /\ op = "compile"
    /\ output.ok
    /\ before > 1
    /\ input.match.value = call
    /\ Len(input.match.cases) = MaxCases
    /\ input.match.cases[1].tag = "When"
    /\ input.match.cases[1].pattern = pExtractor
    /\ Occurrences(id(RefNames[before]), output.v) >= 2

\* C2: an operation leaves the counter at least where it found it, and the
\* output of an operation that completes declares each of the names of the
\* counter values it consumed exactly once, and mentions no name of a counter
\* value consumed before it or not yet consumed.
C2_FreshNamesUnique ==
    /\ current >= before
    /\ (op \in {"compile", "compileModule"} /\ output.ok) =>
         \A k \in 1..(MaxCurrent + 1) :
            IF k \in before..(current - 1)
            THEN Declarations(id(RefNames[k]), output.v) = 1
            ELSE Occurrences(id(RefNames[k]), output.v) = 0

C2_Witness ==
    /\ op = "compileModule"
    /\ output.ok
    /\ before > 1
    /\ current >= before + 4
    /\ Len(input.definitions) = MaxDefs

-----------------------------------------------------------------------------
(* Properties of the lowering of function and member bodies.               *)

\* C5: a function whose body ends in an if/else with both blocks ending in
\* an expression statement lowers, without error, to a function whose body
\* ends in an if statement with both blocks ending in the return of the
\* lowered expression.
C5_ConditionalTailLowered ==
    (/\ op = "compileFunction"
     /\ Len(input.block) > 0
     /\ Last(input.block).type = "IfStatement"
     /\ Last(input.block).alternate.type = "Else"
     /\ Len(Last(input.block).block) > 0
     /\ Len(Last(input.block).alternate.block) > 0
     /\ Last(Last(input.block).block).type = "ExpressionStatement"
     /\ Last(Last(input.block).alternate.block).type = "ExpressionStatement")
      => /\ output.ok
         /\ LET source == Last(input.block)
                lowered == Last(output.v[1].declaration.body.body)
            IN  /\ lowered.type = "IfStatement"
                /\ Last(lowered.consequent.body) =
                     t_returnStatement(
                       compile(Last(source.block).expression, 1).v)
                /\ Last(lowered.alternate.body) =
                     t_returnStatement(
                       compile(Last(source.alternate.block).expression, 1).v)

\* Whether the last operation lowered function or member bodies.
LowersBodies ==
    \/ op \in {"compileFunction", "compileClass"}
    \/ /\ op = "compile"
       /\ input.type = "ExpressionStatement"
       /\ input.expression.type = "FunctionExpression"

\* The source bodies the last operation lowered: how many, and each one's
\* block, whether it is a setter's, and the statements it was lowered to.
BodyCount ==
    IF op = "compileClass" THEN Len(input.declaration.members) ELSE 1

SourceBlock(i) ==
    CASE op = "compileFunction" -> input.block
      [] op = "compileClass" -> input.declaration.members[i].definition.block
      [] OTHER -> input.expression.block

IsSetter(i) ==
    /\ op = "compileClass"
    /\ input.declaration.members[i].definition.type = "MemberSetter"

LoweredBlock(i) ==
    CASE op = "compileFunction" -> output.v[1].declaration.body.body
      [] op = "compileClass" ->
           LET methods == output.v[1].declaration.body.body
           IN  methods[Len(methods) - BodyCount + i].body.body
      [] OTHER -> output.v.expression.body.body

\* The lowering of a statement that draws no fresh name.
LoweringOf(statement) == compile(statement, 1).v

\* A source statement of a kind whose lowering raises: a conditional and a
\* counted loop (an undeclared name is read), a node of no known kind.
RaisingTail(statement) ==
    statement.type \in {"IfStatement", "ForStatement", "Metadata"}

RECURSIVE IfAlternates(_)
RECURSIVE IfAlternatesIn(_)
\* How many if statements of the Babel tree node have an alternate.
IfAlternates(node) ==
    (IF node.type = "IfStatement" /\ node.alternate # Null THEN 1 ELSE 0)
      + IfAlternatesIn(Parts(node))

IfAlternatesIn(nodes) ==
    IF nodes = <<>> THEN 0
    ELSE IfAlternates(Head(nodes)) + IfAlternatesIn(Tail(nodes))

\* The fresh names the Babel tree node declares.
FreshDeclared(node) ==
    {k \in DOMAIN RefNames : Declarations(id(RefNames[k]), node) >= 1}

\* C12: the lowering of a match of n known cases is n + 1 statements: the
\* declaration of the temporary, then one block statement per case, in
\* order, each the lowering of its own case alone; no if statement in them
\* has an alternate; no case's block mentions a fresh name another case's
\* block declares; a default's block holds the lowered statements of its
\* body and nothing else.
C12_CasesAreSiblings ==
    (/\ op = "compile"
     /\ \A i \in 1..Len(input.match.cases) : KnownCase(input.match.cases[i]))
      => /\ output.ok
         /\ LET cases == input.match.cases
                statements == output.v.body
                temporary == id(RefNames[before])
            IN  /\ Len(statements) = Len(cases) + 1
                /\ statements[1].type = "VariableDeclaration"
                /\ \A i \in 1..Len(cases) :
                     /\ statements[i + 1].type = "BlockStatement"
                     /\ \E c \in before..current :
                          statements[i + 1] = compileCase(temporary, cases[i], c).v
                     /\ IfAlternates(statements[i + 1]) = 0
                     /\ \A j \in 1..Len(cases) : \A k \in FreshDeclared(statements[j + 1]) :
                          j # i => Occurrences(id(RefNames[k]), statements[i + 1]) = 0
                     /\ cases[i].tag = "Default" =>
                          statements[i + 1].body =
                            [n \in 1..Len(cases[i].block) |->
                               LoweringOf(cases[i].block[n])]

C12_Witness ==
    /\ op = "compile"
    /\ output.ok
    /\ Len(input.match.cases) = MaxCases
    /\ input.match.cases[1].tag = "When"
    /\ input.match.cases[1].pattern = pExtractor
    /\ input.match.cases[2].tag = "Default"
    /\ Len(input.match.cases[2].block) > 0
    /\ Len(output.v.body) = MaxCases + 1
    /\ FreshDeclared(output.v.body[2]) # {}

-----------------------------------------------------------------------------
(* What a match is specified to do, and properties of the generated        *)
(* program's run.                                                          *)

RECURSIVE PatternOutcome(_, _, _)
RECURSIVE ItemsOutcome(_, _, _)

\* Element i, from 0, of an array value.
ElementAt(array, i) ==
    IF i < Len(array.items) THEN array.items[i + 1] ELSE VUndefined

\* The patterns matched one after another, each against its value: the
\* first that does not match decides, and the bindings made so far stay.
ItemsOutcome(patterns, values, unapplied) ==
    IF patterns = <<>> THEN [result |-> "match", binds |-> <<>>]
    ELSE LET h == PatternOutcome(Head(patterns), Head(values), unapplied)
         IN  IF h.result # "match" THEN h
             ELSE LET t == ItemsOutcome(Tail(patterns), Tail(values), unapplied)
                  IN  [result |-> t.result, binds |-> h.binds \o t.binds]

\* The pattern against the value v, as the table of pattern kinds states it:
\* "match" with the bindings made, "fail", or "error" where unapply returns
\* what is neither null nor an array.
PatternOutcome(pattern, v, unapplied) ==
    CASE pattern.tag = "Literal" ->
           [result |-> IF StrictEquals(v, VNumber(Number(pattern.literal.sign,
                                                         pattern.literal.digits)))
                       THEN "match" ELSE "fail",
            binds |-> <<>>]
      [] pattern.tag = "Bind" ->
           [result |-> "match", binds |-> <<Declared(pattern.name, v)>>]
      [] pattern.tag = "Array" /\ pattern.pattern.tag = "Regular" ->
           LET items == pattern.pattern.items
           IN  IF v.type = "array" /\ Len(v.items) = Len(items)
               THEN ItemsOutcome(items, v.items, unapplied)
               ELSE [result |-> "fail", binds |-> <<>>]
      [] pattern.tag = "Array" /\ pattern.pattern.tag = "Spread" ->
           LET items == pattern.pattern.items
               K == Len(items)
           IN  IF v.type = "array" /\ Len(v.items) >= K
               THEN ItemsOutcome(
                      Append(items, pattern.pattern.spread),
                      Append(SubSeq(v.items, 1, K),
                             VArray(SubSeq(v.items, K + 1, Len(v.items)))),
                      unapplied)
               ELSE [result |-> "fail", binds |-> <<>>]
      [] pattern.tag = "Object" ->
           IF v.type \in {"array", "object"}
           THEN ItemsOutcome(
                  [i \in 1..Len(pattern.pairs) |-> pattern.pairs[i].pattern],
                  [i \in 1..Len(pattern.pairs) |->
                     GetValue(v, VString(<<pattern.pairs[i].name>>))],
                  unapplied)
           ELSE [result |-> "fail", binds |-> <<>>]
      [] pattern.tag = "Extractor" ->
           CASE unapplied.type = "null" -> [result |-> "fail", binds |-> <<>>]
             [] unapplied.type = "array" ->
                  ItemsOutcome(pattern.patterns,
                               [i \in 1..Len(pattern.patterns) |->
                                  ElementAt(unapplied, i - 1)],
                               unapplied)
             [] OTHER -> [result |-> "error", binds |-> <<>>]

\* The cases of the match of the function called, and the outcome of each.
RunCases == input.function.block[1].match.cases

CaseOutcome(i) ==
    IF RunCases[i].tag = "Default" THEN [result |-> "match", binds |-> <<>>]
    ELSE PatternOutcome(RunCases[i].pattern, input.argument, input.unapplied)

RECURSIVE BoundValue(_, _, _)
\* The value the name has after the bindings made, the latest first, and
\* in the scope of the call where none binds it.
BoundValue(binds, name, n) ==
    IF n = 0
    THEN RunEnv(input)[Lookup(RunEnv(input), name, Len(RunEnv(input)))].value
    ELSE IF binds[n].name = name THEN binds[n].value
         ELSE BoundValue(binds, name, n - 1)

\* Whether the predicate of case i, the name of a value, holds with the
\* bindings of its pattern made.
PredicateHolds(i) ==
    LET binds == CaseOutcome(i).binds
    IN  Truthy(BoundValue(binds, RunCases[i].predicate.name, Len(binds)))

\* Whether case i is one whose pattern, and predicate if any, succeeds.
CaseSucceeds(i) ==
    /\ CaseOutcome(i).result = "match"
    /\ RunCases[i].tag = "When" => PredicateHolds(i)

\* The first case that succeeds, 0 if none does.
FirstSucceeding ==
    IF \E i \in 1..Len(RunCases) : CaseSucceeds(i)
    THEN CHOOSE i \in 1..Len(RunCases) :
           CaseSucceeds(i) /\ \A j \in 1..(i - 1) : ~CaseSucceeds(j)
    ELSE 0

NoCaseErrs == \A i \in 1..Len(RunCases) : CaseOutcome(i).result # "error"

IsTailCall == Len(input.function.block) = 1

RECURSIVE BodyEvents(_)
\* Of what was executed, the statements of case bodies: expression
\* statements, returns, and the declarations of lets (named t).
BodyEvents(tr) ==
    IF tr = <<>> THEN <<>>
    ELSE LET e == Head(tr)
         IN  (IF \/ e.type \in {"statement", "return"}
                 \/ e.type = "declare" /\ e.name = "t"
              THEN <<e>> ELSE <<>>) \o BodyEvents(Tail(tr))

RECURSIVE PatternEvents(_)
\* Of what was executed, the declarations of the names patterns bind.
PatternEvents(tr) ==
    IF tr = <<>> THEN <<>>
    ELSE LET e == Head(tr)
         IN  (IF /\ e.type = "declare"
                 /\ e.name # "t"
                 /\ \A k \in DOMAIN RefNames : e.name # RefNames[k]
              THEN <<e>> ELSE <<>>) \o PatternEvents(Tail(tr))

RECURSIVE CountEvents(_, _)
\* How many events of the type were executed.
CountEvents(tr, type) ==
    IF tr = <<>> THEN 0
    ELSE (IF Head(tr).type = type THEN 1 ELSE 0) + CountEvents(Tail(tr), type)

\* What running a case block as written leaves among the body events:
\* its last statement returned where the normalizer made it a return.
BlockEvents(block, returns) ==
    IF block = <<>> THEN <<>>
    ELSE LET last == Last(block)
         IN  CASE last.type = "ExpressionStatement" ->
                    IF returns THEN <<Returned(LoweringOf(last.expression))>>
                    ELSE <<Executed(LoweringOf(last.expression))>>
               [] last.type = "LetStatement" ->
                    <<Declared(last.name,
                        Evaluate(LoweringOf(last.expression), RunEnv(input),
                                 <<>>).v)>>
               [] OTHER -> <<>>

RECURSIVE SucceedingEvents(_)
\* The body events of the succeeding cases among the first n, in order.
SucceedingEvents(n) ==
    IF n = 0 THEN <<>>
    ELSE SucceedingEvents(n - 1)
           \o (IF CaseSucceeds(n) THEN BlockEvents(RunCases[n].block, FALSE)
               ELSE <<>>)

\* Whether the body of case i ran: its expression statement or return.
BodyRan(i) ==
    \E k \in 1..Len(output.tr) :
       \/ output.tr[k] = Executed(id(BodyNames[i]))
       \/ output.tr[k] = Returned(id(BodyNames[i]))

\* The statements the match was lowered to, inside the function's body.
MatchStatements1 == first.v[1].declaration.body.body[1].body

\* C11: with the match in last place, and no pattern in error, the body
\* events are those of the first succeeding case alone, and nothing is
\* executed that executing the statements up to that case would not execute.
C11_FirstMatchOnly ==
    (op = "called" /\ IsTailCall /\ NoCaseErrs) =>
      LET f == FirstSucceeding
      IN  /\ BodyEvents(output.tr) =
               (IF f = 0 THEN <<>> ELSE BlockEvents(RunCases[f].block, TRUE))
          /\ f # 0 =>
               output.tr =
                 Execute(t_blockStatement(SubSeq(MatchStatements1, 1, f + 1)),
                         RunEnv(input), <<>>).tr

\* C13: with a statement after the match, and no pattern in error, the body
\* events are those of every succeeding case, in source order, each once,
\* and then the statement after the match.
C13_AllMatchingRun ==
    (op = "called" /\ ~IsTailCall /\ NoCaseErrs) =>
      /\ output.kind = "return"
      /\ output.v = VNumber(99)
      /\ BodyEvents(output.tr) =
           SucceedingEvents(Len(RunCases)) \o <<Returned(id("done"))>>

C13_Witness ==
    /\ op = "called"
    /\ ~IsTailCall
    /\ Len(RunCases) = MaxRunCases
    /\ \A i \in 1..Len(RunCases) : CaseSucceeds(i) /\ BodyRan(i)
    /\ RunCases[1].tag = "When"

\* The call is of a function whose first case has the pattern observed.
FirstPattern == RunCases[1].pattern

PatternCalled(tag) ==
    /\ op = "called"
    /\ Len(RunCases) > 0
    /\ RunCases[1].tag \in {"Case", "When"}
    /\ FirstPattern.tag = tag

\* The temporary the value matched is bound to.
Temporary == id(RefNames[1])

\* The names the patterns of the first case bind.
BoundNames == {"x", "y", "z", "a", "b", "rest"}

\* No name a pattern binds is declared outside the block of the first case,
\* and what is in scope after the call is what was in scope before it.
ScopedToCase ==
    /\ output.env = RunEnv(input)
    /\ \A name \in BoundNames :
         /\ Declarations(id(name), MatchStatements1[1]) = 0
         /\ \A i \in 3..Len(MatchStatements1) :
              Occurrences(id(name), MatchStatements1[i]) = 0

\* C14: an array pattern of N items tests first that the value is an array
\* of length N. Where it is not, nothing is projected, tested, called or
\* declared after the test and the body does not run; the body runs exactly
\* where the items match in turn, with the names they bind; no name the
\* pattern binds is in scope outside the block of the case.
C14_ArrayExactLength ==
    (PatternCalled("Array") /\ FirstPattern.pattern.tag = "Regular") =>
      LET N == Len(FirstPattern.pattern.items)
          v == input.argument
          exact == v.type = "array" /\ Len(v.items) = N
      IN  /\ output.tr[1] = Declared(Temporary.name, v)
          /\ output.tr[2] = Tested(isValidArray(Temporary, "===", N), exact)
          /\ ~exact =>
               /\ CountEvents(output.tr, "project") = 0
               /\ CountEvents(output.tr, "test") = 1
               /\ CountEvents(output.tr, "call") = 0
               /\ CountEvents(output.tr, "declare") = 1
               /\ ~BodyRan(1)
          /\ BodyRan(1) => exact
          /\ NoCaseErrs => (BodyRan(1) <=> CaseSucceeds(1))
          /\ PatternEvents(output.tr) = CaseOutcome(1).binds
          /\ ScopedToCase

C14_Witness ==
    /\ PatternCalled("Array")
    /\ FirstPattern = pPair
    /\ input.argument = VArray(<<VNumber(5), VNumber(1)>>)
    /\ BodyRan(1)
    /\ PatternEvents(output.tr) = <<Declared("x", VNumber(5))>>

C14_WitnessLonger ==
    /\ PatternCalled("Array")
    /\ FirstPattern = pPair
    /\ input.argument = VArray(Numbers(3))
    /\ ~BodyRan(1)
    /\ BodyRan(2)

\* C15: an array pattern of K items and a spread tests first that the value
\* is an array of length at least K. Where it is not, the body does not run;
\* where it is, item i is matched against element i and the spread against
\* the elements from K on, and the body runs exactly where they all match.
C15_SpreadAtLeast ==
    (PatternCalled("Array") /\ FirstPattern.pattern.tag = "Spread") =>
      LET K == Len(FirstPattern.pattern.items)
          v == input.argument
          atLeast == v.type = "array" /\ Len(v.items) >= K
      IN  /\ output.tr[2] = Tested(isValidArray(Temporary, ">=", K), atLeast)
          /\ ~atLeast =>
               /\ ~BodyRan(1)
               /\ CountEvents(output.tr, "declare") = 1
               /\ CountEvents(output.tr, "project") = 0
          /\ NoCaseErrs => (BodyRan(1) <=> CaseSucceeds(1))
          /\ PatternEvents(output.tr) = CaseOutcome(1).binds
          /\ (atLeast /\ FirstPattern = pTriple) =>
               PatternEvents(output.tr) =
                 <<Declared("a", v.items[1]), Declared("b", v.items[2]),
                   Declared("rest", VArray(SubSeq(v.items, 3, Len(v.items))))>>

C15_Witness ==
    /\ PatternCalled("Array")
    /\ FirstPattern = pTriple
    /\ input.argument = VArray(Numbers(4))
    /\ BodyRan(1)
    /\ PatternEvents(output.tr) =
         <<Declared("a", VNumber(1)), Declared("b", VNumber(2)),
           Declared("rest", VArray(<<VNumber(3), VNumber(4)>>))>>

C15_WitnessShorter ==
    /\ PatternCalled("Array")
    /\ FirstPattern = pTriple
    /\ input.argument = VArray(Numbers(1))
    /\ ~BodyRan(1)

\* C16: an object pattern tests first that the value is not null and that
\* its typeof is "object", and tests no key's existence: the tests after the
\* first are those of the pairs' own patterns. Each pair's pattern is matched
\* against the value's property of the pair's name; the body runs exactly
\* where they all match, whatever other keys the value has.
C16_ObjectGuard ==
    PatternCalled("Object") =>
      LET v == input.argument
          object == v.type \in {"array", "object"}
          pairs == FirstPattern.pairs
      IN  /\ output.tr[2] = Tested(isObject(Temporary), object)
          /\ ~object =>
               /\ ~BodyRan(1)
               /\ CountEvents(output.tr, "declare") = 1
               /\ CountEvents(output.tr, "test") = 1
               /\ CountEvents(output.tr, "project") = 0
          /\ object =>
               /\ output.tr[3] = Projected(Temporary, VString(<<pairs[1].name>>))
               /\ output.tr[4].type = "declare"
               /\ output.tr[4].value = GetValue(v, VString(<<pairs[1].name>>))
          /\ \A k \in 3..Len(output.tr) :
               output.tr[k].type = "test" =>
                 \E i \in 1..Len(pairs) :
                    /\ pairs[i].pattern.tag = "Literal"
                    /\ output.tr[k].test.operator = "==="
                    /\ output.tr[k].test.right =
                         compileLiteral(pairs[i].pattern.literal).v
          /\ CountEvents(output.tr, "project") <= Len(pairs)
          /\ BodyRan(1) <=> CaseSucceeds(1)
          /\ PatternEvents(output.tr) = CaseOutcome(1).binds

C16_Witness ==
    /\ PatternCalled("Object")
    /\ FirstPattern = pRecord
    /\ input.argument =
         VObject(<<"x", "y", "z">>, <<VNumber(1), VNumber(2), VNumber(9)>>)
    /\ BodyRan(1)

C16_WitnessMissingKey ==
    /\ PatternCalled("Object")
    /\ FirstPattern = pRecord
    /\ input.argument = VObject(<<"y">>, <<VNumber(1)>>)
    /\ CountEvents(output.tr, "test") = 2
    /\ ~BodyRan(1)

\* The calls of unapply among what was executed.
RECURSIVE UnapplyCalls(_)
UnapplyCalls(tr) ==
    IF tr = <<>> THEN <<>>
    ELSE (IF Head(tr).type = "call" /\ Head(tr).method = "unapply"
          THEN <<Head(tr)>> ELSE <<>>) \o UnapplyCalls(Tail(tr))

\* C17: an extractor pattern calls unapply once, on the value matched. Where
\* the result is null the body does not run and nothing is bound; where it
\* is an array, pattern i is matched against element i, in order, and the
\* body runs exactly where they all match, and the predicate if any holds.
C17_ExtractorUnapply ==
    PatternCalled("Extractor") =>
      LET r == input.unapplied
      IN  /\ UnapplyCalls(output.tr) = <<Called("unapply", input.argument)>>
          /\ r.type = "null" =>
               /\ ~BodyRan(1)
               /\ PatternEvents(output.tr) = <<>>
               /\ CountEvents(output.tr, "project") = 0
          /\ r.type = "array" =>
               /\ BodyRan(1) <=> CaseSucceeds(1)
               /\ PatternEvents(output.tr) = CaseOutcome(1).binds
               /\ CountEvents(output.tr, "project") <= Len(FirstPattern.patterns)

C17_Witness ==
    /\ PatternCalled("Extractor")
    /\ FirstPattern = pPoint
    /\ input.unapplied = VArray(Numbers(2))
    /\ BodyRan(1)
    /\ PatternEvents(output.tr) = <<Declared("x", VNumber(1))>>

C17_WitnessNull ==
    /\ PatternCalled("Extractor")
    /\ input.unapplied = VNull
    /\ ~BodyRan(1)
    /\ BodyRan(2)

\* The run raised the error of the assertion on what unapply returned, and
\* ran no body.
UnapplyRaised ==
    /\ output.kind = "throw"
    /\ output.v = VError("Error", <<"unapply() must return null or an array">>)
    /\ BodyEvents(output.tr) = <<>>
    /\ PatternEvents(output.tr) = <<>>

C18_WitnessUndefined ==
    /\ PatternCalled("Extractor")
    /\ input.unapplied = VUndefined
    /\ BodyRan(2)

-----------------------------------------------------------------------------
(* Properties of the class lowering.                                       *)

\* The members of the lowered class, the constructor first.
ClassMethods == output.v[1].declaration.body.body

\* The getter synthesized for a constructor parameter.
SlotGetter(param) ==
    [type |-> "ClassMethod", kind |-> "get", key |-> id(param), params |-> <<>>,
     body |-> t_blockStatement(<<t_returnStatement(
                t_memberExpression(t_thisExpression, id(SlotNames[param]),
                                   FALSE))>>),
     computed |-> FALSE, static |-> FALSE, generator |-> FALSE,
     async |-> FALSE]

\* C19: a lowered data class holds, after the constructor, one getter per
\* constructor parameter, in order, returning that parameter's slot, then
\* unapply, then the members written; no getter is made for a field. A
\* lowered regular class holds the constructor and the members written and
\* nothing else. Both revisions of the getters' code make the same getters.
C19_GettersPerParameter ==
    (op = "compileClass" /\ output.ok) =>
      LET declaration == input.declaration
          params == declaration.params
          members == declaration.members
          written == [i \in 1..Len(members) |->
                        id(members[i].definition.name)]
          keys == [i \in 1..Len(ClassMethods) |-> ClassMethods[i].key]
      IN  /\ ClassMethods[1].kind = "constructor"
          /\ genGetters0(input.tag = "Data", params)
               = genGetters(input.tag = "Data", params)
          /\ input.tag = "Data" =>
               /\ Len(ClassMethods) = 1 + Len(params) + 1 + Len(members)
               /\ \A i \in 1..Len(params) :
                    ClassMethods[1 + i] = SlotGetter(params[i])
               /\ keys = <<id("constructor")>>
                           \o [i \in 1..Len(params) |-> id(params[i])]
                           \o <<id("unapply")>> \o written
               /\ \A i \in 1..Len(declaration.fields) :
                    \A j \in 1..Len(keys) :
                       keys[j] # id(declaration.fields[i].name)
          /\ input.tag = "Regular" =>
               /\ keys = <<id("constructor")>> \o written
               /\ \A j \in 1..Len(keys) :
                    /\ keys[j] # id("unapply")
                    /\ \A i \in 1..Len(params) : keys[j] # id(params[i])

C19_Witness ==
    /\ op = "compileClass"
    /\ output.ok
    /\ input.tag = "Data"
    /\ Len(input.declaration.params) = 2
    /\ Len(input.declaration.fields) = 1
    /\ ClassMethods[2] = SlotGetter("x")
    /\ ClassMethods[3] = SlotGetter("y")

C19_WitnessRegular ==
    /\ op = "compileClass"
    /\ output.ok
    /\ input.tag = "Regular"
    /\ Len(ClassMethods) = 3

\* C20: the unapply synthesized for a data class is a static member of the
\* lowered class.
C20_UnapplyIsStatic ==
    (op = "compileClass" /\ output.ok /\ input.tag = "Data") =>
      \E j \in 1..Len(ClassMethods) :
         /\ ClassMethods[j].key = id("unapply")
         /\ ClassMethods[j].static

\* The unapply synthesized for the lowered data class.
Unapply ==
    CHOOSE method \in {ClassMethods[j] : j \in 1..Len(ClassMethods)} :
       method.key = id("unapply") /\ method.params = <<id("object")>>

\* C21: the unapply synthesized for a data class tests that its argument
\* is an instance of the class; where it is, it returns the array of the
\* slots of the constructor parameters, in declared order, each read from
\* the argument; where it is not, it returns null.
C21_UnapplyReadsArgument ==
    (op = "compileClass" /\ output.ok /\ input.tag = "Data") =>
      LET params == input.declaration.params
          test == Unapply.body.body[1]
          returned == test.consequent.body[1].argument.elements
      IN  /\ test.test =
               t_binaryExpression("instanceof", id("object"),
                                  id(input.declaration.name))
          /\ test.alternate = t_blockStatement(<<t_returnStatement(t_nullLiteral)>>)
          /\ Len(returned) = Len(params)
          /\ \A i \in 1..Len(params) :
               /\ returned[i].property = id(SlotNames[params[i]])
               /\ returned[i].object = id("object")

\* The store of a value into the slot of a name.
SlotStore(name, value) ==
    t_expressionStatement(
      t_assignmentExpression("=",
        t_memberExpression(t_thisExpression, id(SlotNames[name]), FALSE),
        value))

\* C22: the body of the lowered constructor is the call of super with the
\* lowered superclass arguments, exactly where a superclass is declared,
\* then one store per constructor parameter in declared order, then one
\* store per field, of its lowered initializer, in declared order, then the
\* lowered statements of the constructor written, in source order.
C22_ConstructorOrder ==
    (op = "compileClass" /\ output.ok) =>
      LET declaration == input.declaration
          params == declaration.params
          fields == declaration.fields
          superclass == declaration.superclass
          written == declaration.constructor
      IN  /\ ClassMethods[1].kind = "constructor"
          /\ ClassMethods[1].params = [i \in 1..Len(params) |-> id(params[i])]
          /\ ClassMethods[1].body.body =
               (IF superclass = Null THEN <<>>
                ELSE <<t_expressionStatement(
                         t_callExpression(id("super"),
                           [i \in 1..Len(superclass.params) |->
                              LoweringOf(superclass.params[i])]))>>)
                 \o [i \in 1..Len(params) |-> SlotStore(params[i], id(params[i]))]
                 \o [i \in 1..Len(fields) |->
                       SlotStore(fields[i].name, LoweringOf(fields[i].value))]
                 \o [i \in 1..Len(written) |-> LoweringOf(written[i])]

C22_Witness ==
    /\ op = "compileClass"
    /\ output.ok
    /\ input.declaration.superclass # Null
    /\ Len(input.declaration.superclass.params) > 0
    /\ Len(input.declaration.params) > 0
    /\ Len(input.declaration.fields) > 0
    /\ Len(input.declaration.constructor) > 0
    /\ Len(ClassMethods[1].body.body) = 4

C22_WitnessNoSuperclass ==
    /\ op = "compileClass"
    /\ output.ok
    /\ input.declaration.superclass = Null
    /\ Len(ClassMethods[1].body.body) = 3

\* The const binding of a name to its slot.
SlotUnpack(name) ==
    t_variableDeclaration("const",
      <<t_variableDeclarator(id(name),
          t_memberExpression(t_thisExpression, id(SlotNames[name]), FALSE))>>)

\* C23: the body of every lowered member begins with one const binding per
\* constructor parameter and per field, of the name to its slot, then the
\* const binding of the member's receiver name to this; the statements of
\* the body as written, lowered in source order, follow, and nothing else.
C23_MemberPrelude ==
    (op = "compileClass" /\ output.ok) =>
      LET declaration == input.declaration
          params == declaration.params
          fields == declaration.fields
          prelude == [i \in 1..Len(params) |-> SlotUnpack(params[i])]
                       \o [i \in 1..Len(fields) |-> SlotUnpack(fields[i].name)]
      IN  \A i \in 1..Len(declaration.members) :
             LET definition == declaration.members[i].definition
                 body == LoweredBlock(i)
                 n == Len(prelude)
                 written == IF IsSetter(i) THEN definition.block
                            ELSE fixReturns(definition.block).v
             IN  /\ Len(body) = n + 1 + Len(definition.block)
                 /\ SubSeq(body, 1, n) = prelude
                 /\ body[n + 1] =
                      t_variableDeclaration("const",
                        <<t_variableDeclarator(id(definition.self),
                                               t_thisExpression)>>)
                 /\ \E c \in before..current :
                       SubSeq(body, n + 2, Len(body)) = mapCompile(written, c).v
                 /\ \A k \in 1..n :
                       Occurrences(body[k], t_blockStatement(
                                     SubSeq(body, n + 2, Len(body)))) = 0

C23_Witness ==
    /\ op = "compileClass"
    /\ output.ok
    /\ Len(input.declaration.params) = 2
    /\ Len(input.declaration.fields) = 1
    /\ input.declaration.members[1].tag = "Static"
    /\ input.declaration.members[1].definition.type = "MemberSetter"
    /\ Len(LoweredBlock(1)) = 5
    /\ LoweredBlock(1)[3] = SlotUnpack("z")

C23_WitnessMethods ==
    /\ op = "compileClass"
    /\ output.ok
    /\ Len(input.declaration.members) = 2
    /\ Len(LoweredBlock(2)) = 4

-----------------------------------------------------------------------------
(* Properties of a lowered module.                                         *)

\* The classes of the lowered module.
LoweredClasses ==
    {output.v.body[k].declaration :
       k \in {k \in 1..Len(output.v.body) :
                /\ output.v.body[k].type = "ExportNamedDeclaration"
                /\ output.v.body[k].declaration.type = "ClassDeclaration"}}

\* The names of the slots of this that the constructor of a lowered class
\* stores into.
SlotsWritten(class) ==
    LET body == class.body.body[1].body.body
    IN  {body[k].expression.left.property.name :
           k \in {k \in 1..Len(body) :
                    /\ body[k].type = "ExpressionStatement"
                    /\ body[k].expression.type = "AssignmentExpression"
                    /\ body[k].expression.left.object = t_thisExpression}}

\* C24: of two classes lowered in one module, one the superclass of the
\* other, so that the constructors of both run on one instance, no slot the
\* constructor of one stores into is a slot the constructor of the other
\* stores into.
C24_SlotsPerClass ==
    (op = "compileModule" /\ output.ok) =>
      \A A \in LoweredClasses : \A B \in LoweredClasses :
         (A.id # B.id /\ B.superClass = A.id) =>
           SlotsWritten(A) \cap SlotsWritten(B) = {}

\* C25: the lowering of a class raises, and yields no class, where the
\* definition of some member is not a method, a getter or a setter.
C25_RaisesOnUnknownMember ==
    (/\ op = "compileClass"
     /\ \E i \in 1..Len(input.declaration.members) :
          input.declaration.members[i].definition.type
            \notin {"MemberMethod", "MemberGetter", "MemberSetter"})
      => ~output.ok

-----------------------------------------------------------------------------
(* Properties of the lowering of operators.                                *)

RECURSIVE KnownOperators(_)
\* Whether every operator token written in the expression is one of the
\* grammar's.
KnownOperators(node) ==
    CASE node.type = "BinaryExpression" ->
           /\ node.operator \in DOMAIN MangleTable
           /\ KnownOperators(node.left)
           /\ KnownOperators(node.right)
      [] node.type = "UnaryExpression" ->
           /\ node.operator \in DOMAIN MangleTable
           /\ KnownOperators(node.argument)
      [] node.type = "AtExpression" ->
           KnownOperators(node.object) /\ KnownOperators(node.key)
      [] node.type = "AtPutExpression" ->
           /\ KnownOperators(node.object)
           /\ KnownOperators(node.key)
           /\ KnownOperators(node.value)
      [] OTHER -> TRUE

\* The operator the expression applies, and what it applies it to.
Applied(node) ==
    CASE node.type = "BinaryExpression" ->
           [operator |-> node.operator, args |-> <<node.left, node.right>>]
      [] node.type = "UnaryExpression" ->
           [operator |-> node.operator, args |-> <<node.argument>>]
      [] node.type = "AtExpression" ->
           [operator |-> "[]", args |-> <<node.object, node.key>>]
      [] node.type = "AtPutExpression" ->
           [operator |-> "[]<-", args |-> <<node.object, node.key, node.value>>]

IsOperatorExpression ==
    /\ op = "compile"
    /\ input.type \in {"BinaryExpression", "UnaryExpression", "AtExpression",
                       "AtPutExpression"}

\* C26: an expression that applies an operator of the grammar lowers to the
\* call of the identifier the operator is mangled to, on the lowered
\* operands in the order written; indexed get and put lower to the calls of
\* the names of "[]" and "[]<-"; where the operator, or one in an operand,
\* is no operator of the grammar, the lowering raises and yields no node.
C26_OperatorsAreCalls ==
    IsOperatorExpression =>
      LET applied == Applied(input)
      IN  IF KnownOperators(input)
          THEN /\ output.ok
               /\ output.v.type = "CallExpression"
               /\ output.v.callee = id(MangleTable[applied.operator])
               /\ output.v.arguments =
                    [i \in 1..Len(applied.args) |-> LoweringOf(applied.args[i])]
               /\ input.type = "AtExpression" => output.v.callee = id("$at")
               /\ input.type = "AtPutExpression" =>
                    output.v.callee = id("$atPut")
          ELSE /\ ~output.ok
               /\ Len(output.error) = 2
               /\ output.error[1] = "Unknown operator "
               /\ output.error[2] \notin DOMAIN MangleTable

C26_Witness ==
    /\ IsOperatorExpression
    /\ input = BinaryExpression_binary(BinaryExpression_binary(ea, "+", eb),
                                       "=/=", eb)
    /\ output.ok
    /\ output.v = t_callExpression(id("$notEquals"),
                    <<t_callExpression(id("$plus"), <<id("a"), id("b")>>),
                      id("b")>>)

C26_WitnessUnknown ==
    /\ IsOperatorExpression
    /\ input = UnaryExpression_not("~", ea)
    /\ ~output.ok

\* The generated name d counter values after the name, and any other name
\* unchanged.
ShiftName(name, d) ==
    IF \E k \in DOMAIN RefNames : RefNames[k] = name
    THEN RefNames[(CHOOSE k \in DOMAIN RefNames : RefNames[k] = name) + d]
    ELSE name

RECURSIVE Shift(_, _)
\* The Babel tree node with every generated name in it renamed to the name
\* d counter values after it.
Shift(node, d) ==
    LET All(nodes) == [i \in 1..Len(nodes) |-> Shift(nodes[i], d)]
    IN  CASE node.type = "Identifier" ->
               [node EXCEPT !.name = ShiftName(@, d)]
          [] node.type = "Program" -> [node EXCEPT !.body = All(@)]
          [] node.type = "ExportNamedDeclaration" ->
               [node EXCEPT !.declaration = Shift(@, d)]
          [] node.type = "FunctionDeclaration" ->
               [node EXCEPT !.id = Shift(@, d), !.params = All(@),
                            !.body = Shift(@, d)]
          [] node.type = "ClassDeclaration" ->
               [node EXCEPT !.id = Shift(@, d), !.superClass = Shift(@, d),
                            !.body = Shift(@, d)]
          [] node.type = "ClassBody" -> [node EXCEPT !.body = All(@)]
          [] node.type = "ClassMethod" ->
               [node EXCEPT !.key = Shift(@, d), !.params = All(@),
                            !.body = Shift(@, d)]
          [] node.type = "VariableDeclaration" ->
               [node EXCEPT !.declarations = All(@)]
          [] node.type = "VariableDeclarator" ->
               [node EXCEPT !.id = Shift(@, d), !.init = Shift(@, d)]
          [] node.type = "BlockStatement" -> [node EXCEPT !.body = All(@)]
          [] node.type = "IfStatement" ->
               [node EXCEPT !.test = Shift(@, d), !.consequent = Shift(@, d),
                            !.alternate = Shift(@, d)]
          [] node.type = "ExpressionStatement" ->
               [node EXCEPT !.expression = Shift(@, d)]
          [] node.type \in {"ReturnStatement", "ThrowStatement",
                            "UnaryExpression"} ->
               [node EXCEPT !.argument = Shift(@, d)]
          [] node.type \in {"BinaryExpression", "LogicalExpression",
                            "AssignmentExpression"} ->
               [node EXCEPT !.left = Shift(@, d), !.right = Shift(@, d)]
          [] node.type = "CallExpression" ->
               [node EXCEPT !.callee = Shift(@, d), !.arguments = All(@)]
          [] node.type = "MemberExpression" ->
               [node EXCEPT !.object = Shift(@, d), !.property = Shift(@, d)]
          [] node.type = "ArrayExpression" -> [node EXCEPT !.elements = All(@)]
          [] OTHER -> node

\* C27: the lowering of a module from one value of the counter is the
\* lowering of the same module from any earlier value with every generated
\* name renamed to the name as many counter values later, and raises where
\* that one raises; every generated name the output mentions is declared
\* in it once.
C27_SameUpToRenaming ==
    op = "compileModule" =>
      /\ \A c \in 1..before :
            LET other == compileModule(input, c)
            IN  /\ other.ok = output.ok
                /\ output.ok =>
                     /\ output.v = Shift(other.v, before - c)
                     /\ current - before = other.c - c
      /\ output.ok =>
           \A k \in DOMAIN RefNames :
              Occurrences(id(RefNames[k]), output.v) >= 1 =>
                /\ Declarations(id(RefNames[k]), output.v) = 1
                /\ Occurrences(id(RefNames[k]), output.v) >= 2

C27_Witness ==
    /\ op = "compileModule"
    /\ output.ok
    /\ before >= 3
    /\ current >= before + 3
    /\ output.v # compileModule(input, 1).v
    /\ output.v = Shift(compileModule(input, 1).v, before - 1)

-----------------------------------------------------------------------------
(* Properties of the scopes of a lowered pattern.                          *)

\* The names scoping is observed of: the generated names and the names
\* patterns bind.
Tracked == BoundNames \cup {RefNames[k] : k \in DOMAIN RefNames}

RECURSIVE Subnodes(_)
RECURSIVE SubnodesIn(_)
\* The Babel tree node and every node in it.
Subnodes(node) == <<node>> \o SubnodesIn(Parts(node))

SubnodesIn(nodes) ==
    IF nodes = <<>> THEN <<>>
    ELSE Subnodes(Head(nodes)) \o SubnodesIn(Tail(nodes))

\* Whether the node reads an element, a property by key, or a slice.
IsProjection(node) ==
    /\ node.type = "MemberExpression"
    /\ node.computed \/ node.property = id("slice")

\* Every tracked name the expression mentions is in scope, and every value
\* it projects is a name that is guarded.
ExpressionScoped(expression, scope, guarded) ==
    /\ \A name \in Tracked \ scope : Occurrences(id(name), expression) = 0
    /\ LET nodes == Subnodes(expression)
       IN  \A k \in 1..Len(nodes) :
              IsProjection(nodes[k]) =>
                /\ nodes[k].object.type = "Identifier"
                /\ nodes[k].object.name \in guarded

\* The names whose value the test of a lowered pattern guards: the value
\* is an array, an object, or not null.
GuardedBy(test) ==
    {name \in Tracked :
       \/ \E operator \in {"===", ">="} : \E n \in 0..(MaxItems + 1) :
             test = isValidArray(id(name), operator, n)
       \/ test = isObject(id(name))
       \/ test = isntNone(id(name))}

\* The names the first n statements of a block declare.
DeclaredBefore(body, n) ==
    {body[k].declarations[1].id.name :
       k \in {k \in 1..n : body[k].type = "VariableDeclaration"}}

RECURSIVE StatementScoped(_, _, _)
\* Every mention in the statement is in the scope of a declaration made
\* before it in an enclosing block, every projection is inside the
\* consequent of the guard of the value projected, and no block declares one
\* name twice.
StatementScoped(node, scope, guarded) ==
    CASE node.type = "VariableDeclaration" ->
           ExpressionScoped(node.declarations[1].init, scope, guarded)
      [] node.type = "BlockStatement" ->
           /\ \A k \in 1..Len(node.body) :
                 StatementScoped(node.body[k],
                                 scope \cup DeclaredBefore(node.body, k - 1),
                                 guarded)
           /\ \A j \in 1..Len(node.body) : \A k \in 1..Len(node.body) :
                 (/\ j < k
                  /\ node.body[j].type = "VariableDeclaration"
                  /\ node.body[k].type = "VariableDeclaration")
                   => node.body[j].declarations[1].id
                        # node.body[k].declarations[1].id
      [] node.type = "IfStatement" ->
           /\ ExpressionScoped(node.test, scope, guarded)
           /\ StatementScoped(node.consequent, scope,
                              guarded \cup GuardedBy(node.test))
           /\ node.alternate # Null =>
                StatementScoped(node.alternate, scope, guarded)
      [] node.type = "WhileStatement" ->
           /\ ExpressionScoped(node.test, scope, guarded)
           /\ StatementScoped(node.body, scope, guarded)
      [] node.type = "ExpressionStatement" ->
           ExpressionScoped(node.expression, scope, guarded)
      [] node.type \in {"ReturnStatement", "ThrowStatement"} ->
           ExpressionScoped(node.argument, scope, guarded)

\* Whether the block begins with the declaration of an item: a name bound
\* to an element of a value.
IsItemBlock(node) ==
    /\ node.type = "BlockStatement"
    /\ Len(node.body) > 0
    /\ node.body[1].type = "VariableDeclaration"
    /\ node.body[1].declarations[1].init.type = "MemberExpression"
    /\ node.body[1].declarations[1].init.computed
    /\ node.body[1].declarations[1].init.property.type = "NumericLiteral"

\* The statement of an item's block that the item's pattern ends in: its
\* guard, or the block of what follows its binding.
ItemRest(node) == Last(node.body)

\* Of two items of one value, the block of the later one is inside what the
\* pattern of the earlier one ends in.
SiblingsNested(statement) ==
    LET nodes == Subnodes(statement)
    IN  \A j \in 1..Len(nodes) : \A k \in 1..Len(nodes) :
           (/\ IsItemBlock(nodes[j])
            /\ IsItemBlock(nodes[k])
            /\ nodes[j].body[1].declarations[1].init.object
                 = nodes[k].body[1].declarations[1].init.object
            /\ nodes[j].body[1].declarations[1].init.property.value
                 < nodes[k].body[1].declarations[1].init.property.value)
             => /\ Len(nodes[j].body) >= 2
                /\ Occurrences(nodes[k], ItemRest(nodes[j])) >= 1
                /\ \A n \in 2..Len(nodes[j].body) :
                     nodes[j].body[n].type = "IfStatement" =>
                       Occurrences(nodes[k], nodes[j].body[n].consequent) >= 1

\* C28: in every lowered case, every generated name and every name a
\* pattern binds is mentioned only after its declaration, in the block of
\* the declaration or one inside it; the block of a later item of a pattern
\* is inside what the earlier item's declaration and guard enclose; every
\* projection of a value is inside the consequent of the guard of that
\* value; no block declares a name twice.
C28_PatternScopes ==
    (op \in {"lowered", "called"} /\ first.ok) =>
      \A i \in 2..Len(MatchStatements1) :
         /\ StatementScoped(MatchStatements1[i], {Temporary.name}, {})
         /\ SiblingsNested(MatchStatements1[i])

C28_Witness ==
    /\ op = "lowered"
    /\ first.ok
    /\ Len(RunCases) > 0
    /\ RunCases[1].tag = "Case"
    /\ FirstPattern = pTwice
    /\ Declarations(id("x"), MatchStatements1[2]) = 2
    /\ StatementScoped(MatchStatements1[2], {Temporary.name}, {})

C28_WitnessNested ==
    /\ op = "lowered"
    /\ first.ok
    /\ Len(RunCases) > 0
    /\ RunCases[1].tag = "Case"
    /\ FirstPattern = pInPoint
    /\ SiblingsNested(MatchStatements1[2])
    /\ LET nodes == Subnodes(MatchStatements1[2])
       IN  Cardinality({k \in 1..Len(nodes) : IsItemBlock(nodes[k])}) = 4

-----------------------------------------------------------------------------
(* Properties of a case with a predicate.                                  *)

\* The call is of a function whose first case has a predicate, and no
\* other case has.
PredicateCalled ==
    /\ op = "called"
    /\ Len(RunCases) > 0
    /\ RunCases[1].tag = "When"
    /\ \A i \in 2..Len(RunCases) : RunCases[i].tag # "When"

\* The lowered predicate of the first case.
LoweredPredicate == LoweringOf(RunCases[1].predicate)

\* Where among what was executed the predicate was tested.
PredicateTests ==
    {k \in 1..Len(output.tr) :
       /\ output.tr[k].type = "test"
       /\ output.tr[k].test = LoweredPredicate}

\* The if statements of the lowered first case that test the predicate.
PredicateGuards ==
    LET nodes == Subnodes(MatchStatements1[2])
    IN  {k \in 1..Len(nodes) :
           nodes[k].type = "IfStatement" /\ nodes[k].test = LoweredPredicate}

\* C29: the lowered first case tests its predicate in one if statement,
\* inside every guard and binding of the pattern and with the lowered body
\* alone for consequent. The predicate is tested once where the pattern
\* matches, after every binding of the pattern and with them in scope, and
\* not at all where it does not; the body runs exactly where the predicate
\* was tested and held; where it did not hold the run goes on with the next
\* case.
C29_PredicateInnermost ==
    PredicateCalled =>
      LET nodes == Subnodes(MatchStatements1[2])
          matched == CaseOutcome(1).result = "match"
          lowered == [n \in 1..Len(RunCases[1].block) |->
                        IF IsTailCall /\ n = Len(RunCases[1].block)
                        THEN t_returnStatement(
                               LoweringOf(RunCases[1].block[n].expression))
                        ELSE LoweringOf(RunCases[1].block[n])]
      IN  /\ Cardinality(PredicateGuards) = 1
          /\ \A k \in PredicateGuards :
               /\ nodes[k].consequent = t_blockStatement(lowered)
               /\ nodes[k].alternate = Null
               /\ \A j \in 1..Len(nodes) :
                    (/\ nodes[j].type \in {"IfStatement", "VariableDeclaration"}
                     /\ j # k)
                      => /\ Occurrences(nodes[j], nodes[k]) = 0
                         /\ (/\ nodes[j].type = "IfStatement"
                             /\ nodes[j].consequent.type # "ThrowStatement")
                              => Occurrences(nodes[k], nodes[j].consequent) = 1
          /\ StatementScoped(MatchStatements1[2], {Temporary.name}, {})
          /\ NoCaseErrs =>
               /\ Cardinality(PredicateTests) = (IF matched THEN 1 ELSE 0)
               /\ \A k \in PredicateTests :
                    /\ output.tr[k].result = PredicateHolds(1)
                    /\ PatternEvents(SubSeq(output.tr, 1, k - 1))
                         = CaseOutcome(1).binds
               /\ BodyRan(1) <=> (matched /\ PredicateHolds(1))
               /\ (matched /\ ~PredicateHolds(1) /\ Len(RunCases) = 2
                     /\ RunCases[2] =
                          MatchCase_default(<<ExpressionStatement(bodyOf(2))>>))
                    => BodyRan(2)

C29_Witness ==
    /\ PredicateCalled
    /\ FirstPattern = pPair
    /\ RunCases[1].predicate = VariableExpression("x")
    /\ input.argument = VArray(<<VNumber(0), VNumber(1)>>)
    /\ IsTailCall
    /\ Cardinality(PredicateTests) = 1
    /\ ~BodyRan(1)
    /\ BodyRan(2)

C29_WitnessHeld ==
    /\ PredicateCalled
    /\ FirstPattern = pPair
    /\ RunCases[1].predicate = VariableExpression("x")
    /\ input.argument = VArray(<<VNumber(5), VNumber(1)>>)
    /\ IsTailCall
    /\ BodyRan(1)
    /\ ~BodyRan(2)

-----------------------------------------------------------------------------
(* Properties of the lowering of loops.                                    *)

\* C30: a loop statement of every kind lowers, without error, to a loop
\* whose body is the block of the statements written, lowered one by one in
\* source order.
C30_LoopsLowered ==
    (op = "compile" /\ input.type \in LoopTypes) =>
      /\ output.ok
      /\ output.v.body =
           t_blockStatement([n \in 1..Len(input.block) |->
                               LoweringOf(input.block[n])])

====
